---------------------------- MODULE Spec2Model ----------------------------
(***************************************************************************)
(* A model of faclib/array.c: the block array (ARRAY), the dense nested    *)
(* multi-array (SMulti), the hash-sparse multi-array (NMulti) with its     *)
(* byte ledger and eviction, and the hybrid block-split multi-array        *)
(* (MMulti).                                                               *)
(***************************************************************************)
EXTENDS Integers, Sequences, FiniteSets, TLC

(***************************************************************************)
(* Machine words.  ub4 is "unsigned long int" (array.c:594): 64 bits on    *)
(* the LP64 targets the code is built for.  A word is kept as four 16-bit  *)
(* limbs, least significant first, so that every intermediate value stays  *)
(* inside the range of the model checker's integers.                       *)
(***************************************************************************)
Limb == 2 ^ 16

Pow2(n) == 2 ^ n

RECURSIVE Xor16(_, _)
Xor16(x, y) ==
  IF x = 0 THEN y
  ELSE IF y = 0 THEN x
  ELSE ((x + y) % 2) + 2 * Xor16(x \div 2, y \div 2)

RECURSIVE And16(_, _)
And16(x, y) ==
  IF x = 0 \/ y = 0 THEN 0
  ELSE ((x % 2) * (y % 2)) + 2 * And16(x \div 2, y \div 2)

\* int -> ub4 (the assignment k[i] = id[i] sign-extends).
ToUb4(v) ==
  IF v >= 0
    THEN <<v % Limb, v \div Limb, 0, 0>>
    ELSE LET n == (-v) - 1
         IN  <<(Limb - 1) - (n % Limb), (Limb - 1) - (n \div Limb),
               Limb - 1, Limb - 1>>

\* ub4 -> int (the cast keeps the low 32 bits, two's complement).
ToInt(w) ==
  IF w[2] < 32768 THEN w[1] + w[2] * Limb
                  ELSE w[1] + (w[2] - Limb) * Limb

WAdd(a, b) ==
  LET s1 == a[1] + b[1]
      s2 == a[2] + b[2] + (s1 \div Limb)
      s3 == a[3] + b[3] + (s2 \div Limb)
      s4 == a[4] + b[4] + (s3 \div Limb)
  IN  <<s1 % Limb, s2 % Limb, s3 % Limb, s4 % Limb>>

WSub(a, b) ==
  LET d1 == Limb + a[1] - b[1]
      d2 == Limb + a[2] - b[2] - (IF d1 < Limb THEN 1 ELSE 0)
      d3 == Limb + a[3] - b[3] - (IF d2 < Limb THEN 1 ELSE 0)
      d4 == Limb + a[4] - b[4] - (IF d3 < Limb THEN 1 ELSE 0)
  IN  <<d1 % Limb, d2 % Limb, d3 % Limb, d4 % Limb>>

WXor(a, b) ==
  <<Xor16(a[1], b[1]), Xor16(a[2], b[2]), Xor16(a[3], b[3]), Xor16(a[4], b[4])>>

WAnd(a, b) ==
  <<And16(a[1], b[1]), And16(a[2], b[2]), And16(a[3], b[3]), And16(a[4], b[4])>>

LimbAt(a, i) == IF i >= 1 /\ i <= 4 THEN a[i] ELSE 0

\* a >> s, 0 <= s < 64
WShr(a, s) ==
  LET q == s \div 16
      r == s % 16
      L(i) == (LimbAt(a, i + q) \div Pow2(r))
              + (LimbAt(a, i + q + 1) % Pow2(r)) * Pow2(16 - r)
  IN  <<L(1), L(2), L(3), L(4)>>

\* a << s, 0 <= s < 64
WShl(a, s) ==
  LET q == s \div 16
      r == s % 16
      L(i) == ((LimbAt(a, i - q) * Pow2(r)) % Limb)
              + (LimbAt(a, i - q - 1) \div Pow2(16 - r))
  IN  <<L(1), L(2), L(3), L(4)>>

\* One line of the mixer: x -= y; x -= z; x ^= w.
MixStep(x, y, z, w) == WXor(WSub(WSub(x, y), z), w)

\* The lines of the mixer on the triple t = <<a, b, c>>.
MixA(t, s) == <<MixStep(t[1], t[2], t[3], WShr(t[3], s)), t[2], t[3]>>

MixB(t, s) == <<t[1], MixStep(t[2], t[3], t[1], WShl(t[1], s)), t[3]>>

MixC(t, s) == <<t[1], t[2], MixStep(t[3], t[1], t[2], WShr(t[2], s))>>

\* The element of a one-element set: each line of the mixer is computed
\* once and handed on as a value.
The(S) == CHOOSE x \in S : TRUE

Mix(a, b, c) ==
  The({MixC(t8, 15) : t8 \in
      {MixB(t7, 10) : t7 \in
      {MixA(t6, 3)  : t6 \in
      {MixC(t5, 5)  : t5 \in
      {MixB(t4, 16) : t4 \in
      {MixA(t3, 12) : t3 \in
      {MixC(t2, 13) : t2 \in
      {MixB(t1, 8)  : t1 \in
      {MixA(t0, 13) : t0 \in {<<a, b, c>>}}}}}}}}}})

\* 0x9e3779b9
Golden == <<31161, 40503, 0, 0>>

RECURSIVE Hash2Loop(_, _)
Hash2Loop(k, abc) ==
  IF Len(k) >= 3
    THEN Hash2Loop(SubSeq(k, 4, Len(k)),
                   The({Mix(WAdd(t[1], ToUb4(k[1])),
                            WAdd(t[2], ToUb4(k[2])),
                            WAdd(t[3], ToUb4(k[3]))) : t \in {abc}}))
    ELSE <<k, abc>>

\* The last one or two words, the length, the final mix and the mask.
Hash2Tail(id, k, abc, m) ==
  LET c == WAdd(abc[3], ToUb4(Len(id)))
      b == IF Len(k) = 2 THEN WAdd(abc[2], ToUb4(k[2])) ELSE abc[2]
      a == IF Len(k) >= 1 THEN WAdd(abc[1], ToUb4(k[1])) ELSE abc[1]
  IN  The({ToInt(WAnd(t[3], ToUb4(m))) : t \in {Mix(a, b, c)}})

Hash2(id, initval, m) ==
  The({Hash2Tail(id, r[1], r[2], m) :
         r \in {Hash2Loop(id, <<Golden, Golden, ToUb4(initval)>>)}})

\* 1 << (n/2 + 16)
HashSize(n) == Pow2((n \div 2) + 16)

HashMask(n) == HashSize(n) - 1

(***************************************************************************)
(* The block array: ARRAY and its chain of DATA blocks.                    *)
(*                                                                         *)
(* A pointer is modelled by what it points to: a NULL pointer is the empty *)
(* sequence, a pointer to an element is the one-element sequence holding   *)
(* the element.  A chain is the sequence of its DATA nodes in link order;  *)
(* a node that has been passed to free() while a link still leads to it    *)
(* stays in the sequence with live = FALSE.                                *)
(***************************************************************************)
NULL == <<>>

\* The build: locks exist when the code is compiled with USE_MPI == 2.
USE_MPI == 2

\* The content of malloc'ed storage that no InitData has touched.
Raw == 0 - 1

NewLock == IF USE_MPI = 2 THEN "lock" ELSE "NULL"

ArrayInit(esize, block) ==
  [esize |-> esize, block |-> block, bsize |-> esize * block,
   dim |-> 0, data |-> NULL, lock |-> NewLock]

\* malloc(a->bsize) followed by the optional InitData(dptr, a->block).
NewBlock(a, fresh) == [m \in 1..a.block |-> fresh]

NewNode(dptr) == [dptr |-> dptr, live |-> TRUE]

ArrayGet(a, i) ==
  IF i < 0 \/ i >= a.dim THEN NULL
  ELSE LET p == a.data[(i \div a.block) + 1]
       IN  IF p.dptr # NULL THEN <<p.dptr[(i % a.block) + 1]>> ELSE NULL

\* The chain after the walk of ArraySet: nodes are linked, without storage,
\* up to the block that covers index i.
RECURSIVE Extend(_, _)
Extend(chain, n) ==
  IF Len(chain) >= n THEN chain ELSE Extend(Append(chain, NewNode(NULL)), n)

\* The block and the offset ArraySet ends at: the walk leaves a negative i
\* where it is, and the pointer loop then runs zero times.
SetNode(a, i) == IF i >= a.block THEN (i \div a.block) + 1 ELSE 1

SetOffset(a, i) == IF i >= a.block THEN (i % a.block) + 1
                   ELSE IF i > 0 THEN i + 1 ELSE 1

ArraySet(a, i, d, fresh) ==
  LET data0 == IF a.dim = 0 THEN <<NewNode(NewBlock(a, fresh))>> ELSE a.data
      dim1  == IF a.dim <= i THEN i + 1 ELSE a.dim
      n     == SetNode(a, i)
      data1 == Extend(data0, n)
      dptr  == IF data1[n].dptr = NULL THEN NewBlock(a, fresh)
                                       ELSE data1[n].dptr
      off   == SetOffset(a, i)
      dptr1 == IF d # NULL THEN [dptr EXCEPT ![off] = d[1]] ELSE dptr
  IN  [a EXCEPT !.dim = dim1,
                !.data = [data1 EXCEPT ![n] = [@ EXCEPT !.dptr = dptr1]]]

\* The element ArraySet returns a pointer to.
ArraySetPt(a, i, d, fresh) ==
  ArraySet(a, i, d, fresh).data[SetNode(a, i)].dptr[SetOffset(a, i)]

ArrayAppend(a, d, fresh) == ArraySet(a, a.dim, d, fresh)

\* The elements the loop of ArrayContiguous copies, from block n on, with i
\* elements left to copy.
RECURSIVE ContiguousFrom(_, _, _)
ContiguousFrom(a, n, i) ==
  IF i <= a.block
    THEN [j \in 1..i |-> a.data[n].dptr[j]]
    ELSE [j \in 1..a.block |-> a.data[n].dptr[j]]
           \o ContiguousFrom(a, n + 1, i - a.block)

\* ArrayContiguous that copies from the first block only.
ArrayContiguousFirstBlock(a) ==
  IF a.dim = 0 THEN NULL
  ELSE <<[j \in 1..(IF a.dim <= a.block THEN a.dim ELSE a.block) |->
            a.data[1].dptr[j]]>>

\* A pointer to the copy, or NULL.
ArrayContiguous(a) ==
  IF a.dim = 0 THEN NULL ELSE <<ContiguousFrom(a, 1, a.dim)>>

\* Whether the loop of ArrayContiguous reads a block that was freed or was
\* never allocated.
ContiguousTouchesBad(a) ==
  /\ a.dim # 0
  /\ \E n \in 1..(((a.dim - 1) \div a.block) + 1) :
       n > Len(a.data) \/ ~a.data[n].live \/ a.data[n].dptr = NULL

\* Whether the walk of ArraySet(a, i) reads a node that was already freed.
SetTouchesFreed(a, i) ==
  /\ a.dim # 0
  /\ \E j \in 1..Len(a.data) : j <= SetNode(a, i) /\ ~a.data[j].live

\* Whether the chain holds a node that was already freed: the recursion of
\* ArrayFreeData from any node runs to the end of the chain.
HasFreed(chain) == \E j \in 1..Len(chain) : ~chain[j].live

ArrayFree(a) ==
  IF a.dim = 0 THEN a
  ELSE [a EXCEPT !.dim = 0, !.data = NULL, !.lock = "NULL"]

\* Locks destroyed by ArrayFree.
ArrayFreeLocks(a) == IF a.dim # 0 /\ a.lock # "NULL" THEN 1 ELSE 0

\* ArrayTrim with "a->dim = n + 1" for "a->dim = n".
ArrayTrimOffByOne(a, n) ==
  IF a.dim <= n THEN a
  ELSE IF n = 0 THEN ArrayFree(a)
  ELSE [a EXCEPT !.dim = n + 1,
                 !.data = SubSeq(a.data, 1, (n \div a.block) + 1)]

ArrayTrim(a, n) ==
  IF a.dim <= n THEN a
  ELSE IF n = 0 THEN ArrayFree(a)
  ELSE LET q == n \div a.block
           i == n % a.block
       IN  IF i = 0
             \* ArrayFreeData(p, ...); p = NULL: the blocks from p on are
             \* freed, the link of the block before p is left as it was.
             THEN [a EXCEPT !.dim = n,
                            !.data = [j \in 1..Len(a.data) |->
                                        IF j > q
                                          THEN [a.data[j] EXCEPT !.live = FALSE]
                                          ELSE a.data[j]]]
             ELSE [a EXCEPT !.dim = n, !.data = SubSeq(a.data, 1, q + 1)]

TrimFreeLocks(a, n) == IF a.dim > n /\ n = 0 THEN ArrayFreeLocks(a) ELSE 0

\* Whether ArrayTrim(a, n) passes an already freed node to ArrayFreeData.
TrimTouchesFreed(a, n) == a.dim > n /\ HasFreed(a.data)

(***************************************************************************)
(* The dense nested multi-array (SMulti).                                  *)
(***************************************************************************)
SizeofARRAY == 32

\* An ARRAY element as InitArrayData leaves it: dim and esize are zero, the
\* other fields are whatever malloc returned.
ArrayRaw ==
  [esize |-> 0, block |-> Raw, bsize |-> Raw, dim |-> 0, data |-> NULL, lock |-> "raw"]

SMultiInit(esize, ndim, block) ==
  [kind |-> "S", maxsize |-> 0 - 1, totalsize |-> 0, clean_mode |-> 0 - 1,
   ndim |-> ndim, esize |-> esize, block |-> block, array |-> NULL]

RECURSIVE SMultiGetAt(_, _, _, _)
SMultiGetAt(ma, a, i, k) ==
  LET r == ArrayGet(a, k[i])
  IN  IF r = NULL THEN NULL
      ELSE IF i = ma.ndim THEN r
      ELSE SMultiGetAt(ma, r[1], i + 1, k)

SMultiGet(ma, k) ==
  IF ma.array = NULL THEN NULL ELSE SMultiGetAt(ma, ma.array[1], 1, k)

\* The walk of SMultiSet from the array a of dimension i (1 is the first):
\* the array after the call, the element the call returns a pointer to, and
\* the number of arrays it initialized.
RECURSIVE SMultiSetAt(_, _, _, _, _, _)
SMultiSetAt(ma, a, i, k, d, fresh) ==
  IF i = ma.ndim
    THEN [a  |-> ArraySet(a, k[i], d, fresh),
          pt |-> ArraySetPt(a, k[i], d, fresh),
          ni |-> 0]
    ELSE LET e  == ArraySetPt(a, k[i], NULL, ArrayRaw)
             e1 == IF e.esize = 0
                     THEN ArrayInit(IF i < ma.ndim - 1 THEN SizeofARRAY ELSE ma.esize,
                                    ma.block[i + 1])
                     ELSE e
             r  == SMultiSetAt(ma, e1, i + 1, k, d, fresh)
         IN  [a  |-> ArraySet(a, k[i], <<r.a>>, ArrayRaw),
              pt |-> r.pt,
              ni |-> r.ni + (IF e.esize = 0 THEN 1 ELSE 0)]

SMultiSetWalk(ma, k, d, fresh) ==
  SMultiSetAt(ma,
              IF ma.array = NULL
                THEN ArrayInit(IF ma.ndim > 1 THEN SizeofARRAY ELSE ma.esize, ma.block[1])
                ELSE ma.array[1],
              1, k, d, fresh)

SMultiSet(ma, k, d, fresh) ==
  [ma EXCEPT !.array = <<SMultiSetWalk(ma, k, d, fresh).a>>]

SMultiSetPt(ma, k, d, fresh) == SMultiSetWalk(ma, k, d, fresh).pt

\* Locks set up by the ArrayInit calls of SMultiSet.
SMultiSetLocks(ma, k, d, fresh) ==
  IF USE_MPI = 2
    THEN SMultiSetWalk(ma, k, d, fresh).ni + (IF ma.array = NULL THEN 1 ELSE 0)
    ELSE 0

(***************************************************************************)
(* The hybrid multi-array (MMulti).                                        *)
(***************************************************************************)
\* The quotient vectors MMultiIndex derives from the keys of the runs below.
MVecs == {<<1, 0>>, <<6946, 0>>, <<334626, 0>>}

\* Keys of the hash-sparse runs: keys that Hash2 sends to one bucket under
\* HashMask(2), in the order the runs first store them.
NKeyList ==
  <<<<67, 719>>, <<75, 622>>, <<124, 405>>, <<152, 438>>, <<161, 962>>,
    <<162, 541>>, <<218, 608>>, <<334, 232>>, <<355, 374>>, <<372, 265>>,
    <<457, 532>>, <<493, 916>>>>

\* A key of another bucket.
NOtherKey == <<1, 2>>

\* Every vector the runs hash; Hash2 is computed once for each of them.
HashedVecs ==
  MVecs \cup {NKeyList[i] : i \in 1..Len(NKeyList)} \cup {NOtherKey}

\* The values of the hmask field met in the runs: NMultiInit sets it to
\* hsize - 1; MMultiInit never assigns it, so there it holds what the storage
\* of the MULTI held before (zero in static storage, anything elsewhere).
HashMasks == {0, HashMask(2), Raw}

Hash2Table ==
  {<<v, m, Hash2(v, 0, m)>> : v \in HashedVecs, m \in HashMasks}

Hash2At(v, m) == (CHOOSE e \in Hash2Table : e[1] = v /\ e[2] = m)[3]

\* The conversion (unsigned short) x.
ToUShort(x) == x % Limb

RECURSIVE IBlock(_, _)
IBlock(block, i) == IF i = 1 THEN block[1] ELSE block[i] * IBlock(block, i - 1)

\* buckets: the entries of ia and da that the runs can reach.  hmask, and
\* the index scratch fields, are whatever the storage held before.
MMultiInit(esize, ndim, block, hmask, buckets) ==
  [kind |-> "M", maxsize |-> 0 - 1, totalsize |-> 0, clean_mode |-> 0 - 1,
   ndim |-> ndim, ndim1 |-> ndim - 1, isize |-> 2 * ndim, esize |-> esize,
   block |-> block, iblock |-> [i \in 1..ndim |-> IBlock(block, i)],
   hsize |-> HashSize(ndim), hmask |-> hmask,
   ia |-> [h \in buckets |-> ArrayInit(2 * ndim, 16)],
   da |-> [h \in buckets |-> ArrayInit(esize, IBlock(block, ndim))],
   array |-> <<ArrayInit(esize, IBlock(block, ndim))>>,
   isf |-> Raw, aidx |-> Raw,
   iidx |-> [i \in 1..ndim |-> Raw],
   sidx |-> [i \in 1..ndim |-> Raw],
   ridx |-> [i \in 1..ndim |-> Raw]]

RECURSIVE AIdx(_, _, _)
AIdx(ridx, iblock, i) ==
  IF i = 1 THEN ridx[1] ELSE AIdx(ridx, iblock, i - 1) + ridx[i] * iblock[i - 1]

\* MMultiIndex with "k[i] > block[i]" for "k[i] >= block[i]".
MMultiIndexStrict(ma, k) ==
  LET far(i) == k[i] > ma.block[i]
      ridx   == [i \in 1..ma.ndim |->
                   IF far(i) THEN ToUShort(k[i] % ma.block[i]) ELSE ToUShort(k[i])]
  IN  [ma EXCEPT !.isf  = IF \E i \in 1..ma.ndim : far(i) THEN 0 ELSE 1,
                 !.iidx = [i \in 1..ma.ndim |->
                             IF far(i) THEN k[i] \div ma.block[i] ELSE 0],
                 !.sidx = [i \in 1..ma.ndim |->
                             IF far(i) THEN ToUShort(k[i] \div ma.block[i]) ELSE 0],
                 !.ridx = ridx,
                 !.aidx = AIdx(ridx, ma.iblock, ma.ndim)]

MMultiIndex(ma, k) ==
  LET far(i) == k[i] >= ma.block[i]
      ridx   == [i \in 1..ma.ndim |->
                   IF far(i) THEN ToUShort(k[i] % ma.block[i]) ELSE ToUShort(k[i])]
  IN  [ma EXCEPT !.isf  = IF \E i \in 1..ma.ndim : far(i) THEN 0 ELSE 1,
                 !.iidx = [i \in 1..ma.ndim |->
                             IF far(i) THEN k[i] \div ma.block[i] ELSE 0],
                 !.sidx = [i \in 1..ma.ndim |->
                             IF far(i) THEN ToUShort(k[i] \div ma.block[i]) ELSE 0],
                 !.ridx = ridx,
                 !.aidx = AIdx(ridx, ma.iblock, ma.ndim)]

\* The bucket of the indexed key.
MHash(m1) == Hash2At(m1.iidx, m1.hmask)

\* Whether the call for key k indexes ia and da outside their hsize entries.
MOutside(ma, k) ==
  LET m1 == MMultiIndex(ma, k)
  IN  m1.isf = 0 /\ (MHash(m1) < 0 \/ MHash(m1) >= m1.hsize)

\* Entry j of the index array of a bucket.
IaAt(a, j) == a.data[(j \div a.block) + 1].dptr[(j % a.block) + 1]

\* The position of the first entry of a that equals sidx, or -1.
MFind(a, sidx) ==
  LET J == {j \in 0..(a.dim - 1) : IaAt(a, j) = sidx}
  IN  IF J = {} THEN 0 - 1 ELSE CHOOSE j \in J : \A j2 \in J : j <= j2

\* MMultiGet that takes the first super-cell of the bucket without comparing
\* the stored quotients.
MMultiGetFirstCell(ma, k) ==
  LET m1 == MMultiIndex(ma, k)
  IN  IF m1.isf = 1 THEN ArrayGet(m1.array[1], m1.aidx)
      ELSE LET h == MHash(m1)
           IN  IF m1.ia[h].dim > 0 THEN ArrayGet(m1.da[h], m1.aidx) ELSE NULL

MMultiGet(ma, k) ==
  LET m1 == MMultiIndex(ma, k)
  IN  IF m1.isf = 1 THEN ArrayGet(m1.array[1], m1.aidx)
      ELSE LET h == MHash(m1)
               j == MFind(m1.ia[h], m1.sidx)
           IN  IF j >= 0
                 THEN ArrayGet(m1.da[h], m1.aidx + j * m1.iblock[m1.ndim])
                 ELSE NULL

\* A block of the index array as MMultiSet fills it, every byte 0xFF.
FFBlock(a, ndim) == [m \in 1..a.block |-> [i \in 1..ndim |-> Limb - 1]]

\* MMultiSet that clears the dense array before it stores.
MMultiSetFlushing(ma, k, d, fresh) ==
  LET m1 == MMultiIndex(ma, k)
  IN  [m1 EXCEPT !.array = <<ArraySet(ArrayInit(m1.esize, m1.iblock[m1.ndim]),
                                      m1.aidx, d, fresh)>>]

MMultiSet(ma, k, d, fresh) ==
  LET m1 == MMultiIndex(ma, k)
  IN  IF m1.isf = 1
        THEN [m1 EXCEPT !.array = <<ArraySet(m1.array[1], m1.aidx, d, fresh)>>]
        ELSE LET h    == MHash(m1)
                 a    == m1.ia[h]
                 da   == m1.da[h]
                 cell == m1.iblock[m1.ndim]
                 j    == MFind(a, m1.sidx)
                 \* dim = 0, or the scan ended with m = a->block
                 data0 == IF a.dim % a.block = 0
                            THEN Append(a.data, NewNode(FFBlock(a, m1.ndim)))
                            ELSE a.data
                 data1 == [data0 EXCEPT ![(a.dim \div a.block) + 1] =
                             [@ EXCEPT !.dptr =
                                [@ EXCEPT ![(a.dim % a.block) + 1] = m1.sidx]]]
             IN  IF j >= 0
                   THEN [m1 EXCEPT !.da = [@ EXCEPT ![h] =
                                       ArraySet(da, m1.aidx + j * cell, d, fresh)]]
                   ELSE [m1 EXCEPT
                           !.ia = [@ EXCEPT ![h] =
                                     [a EXCEPT !.data = data1, !.dim = a.dim + 1]],
                           !.da = [@ EXCEPT ![h] =
                                     ArraySet(da, m1.aidx + a.dim * cell, d, fresh)]]

(***************************************************************************)
(* The hash-sparse multi-array (NMulti), its byte ledger and eviction.     *)
(* The totals are doubles in the code; every value they take here is a     *)
(* whole number far below 2^53, and totalsize > 0.1*_totalsize decides as  *)
(* 10*totalsize > _totalsize does.                                         *)
(***************************************************************************)
SizeofDATA == 16

SizeofMDATA == 24

SizeofLOCK == 4

\* An MDATA slot as InitMDataData leaves it.
MDataNull == [index |-> NULL, lock |-> "NULL", data |-> NULL]

\* buckets: the entries of the bucket table that the runs can reach.
\* numelem is not assigned: it holds what the storage held before.
NMultiInit(esize, ndim, numelem, buckets) ==
  [kind |-> "N", maxsize |-> 0 - 1, totalsize |-> 0, clean_mode |-> 0 - 1,
   ndim |-> ndim, isize |-> 4 * ndim, esize |-> esize,
   hsize |-> HashSize(ndim), hmask |-> HashSize(ndim) - 1,
   array |-> [h \in buckets |-> ArrayInit(SizeofMDATA, 8)],
   lock |-> NewLock, numelem |-> numelem]

\* Entry j of a bucket.
NEntryAt(a, j) == a.data[(j \div a.block) + 1].dptr[(j % a.block) + 1]

\* NFind that never finds the key.
NFindNone(a, k) == 0 - 1

\* The position of the first entry of bucket a whose index equals k, or -1.
NFind(a, k) ==
  LET J == {j \in 0..(a.dim - 1) : NEntryAt(a, j).index = <<k>>}
  IN  IF J = {} THEN 0 - 1 ELSE CHOOSE j \in J : \A j2 \in J : j <= j2

\* NMultiGet that returns the first entry of the bucket without comparing
\* the stored index.
NMultiGetFirst(ma, k) ==
  LET a == ma.array[Hash2At(k, ma.hmask)]
  IN  IF a.dim > 0 THEN NEntryAt(a, 0).data ELSE NULL

NMultiGet(ma, k) ==
  LET a == ma.array[Hash2At(k, ma.hmask)]
      j == NFind(a, k)
  IN  IF j >= 0 THEN NEntryAt(a, j).data ELSE NULL

\* Locks that NMultiArrayFreeData takes down in the chain of bucket a.
NEntryLocks(a) ==
  Cardinality({j \in 0..(a.dim - 1) : NEntryAt(a, j).lock # "NULL"})

NMultiFreeDataOnly(a) ==
  IF a.dim = 0 THEN a ELSE [a EXCEPT !.dim = 0, !.data = NULL]

RECURSIVE SumOver(_, _)
SumOver(S, f) ==
  IF S = {} THEN 0
  ELSE LET x == CHOOSE y \in S : TRUE IN f[x] + SumOver(S \ {x}, f)

\* Whether NMultiFreeData goes on to clear the cache.
NClean(ma, T, M) ==
  IF ma.clean_mode = 0 THEN ~(ma.totalsize < ma.maxsize)
  ELSE IF ma.clean_mode = 1 THEN ~(T < M /\ 10 * ma.totalsize <= T)
  ELSE ~(ma.totalsize <= 0)

\* NMultiFreeData that leaves _totalsize as it was.
NMultiFreeDataKeepsGlobal(ma, T, M) ==
  [ma |-> [ma EXCEPT !.array = [h \in DOMAIN ma.array |->
                                  NMultiFreeDataOnly(ma.array[h])],
                     !.totalsize = 0, !.numelem = 0, !.clean_mode = 0 - 1],
   T  |-> T,
   nl |-> SumOver(DOMAIN ma.array, [h \in DOMAIN ma.array |-> NEntryLocks(ma.array[h])])]

\* T, M: _totalsize and _maxsize.  The cache and _totalsize after the call,
\* and the number of locks it took down.
NMultiFreeData(ma, T, M) ==
  IF NClean(ma, T, M)
    THEN [ma |-> [ma EXCEPT !.array = [h \in DOMAIN ma.array |->
                                         NMultiFreeDataOnly(ma.array[h])],
                            !.totalsize = 0, !.numelem = 0,
                            !.clean_mode = 0 - 1],
          T  |-> T - ma.totalsize,
          nl |-> SumOver(DOMAIN ma.array,
                         [h \in DOMAIN ma.array |-> NEntryLocks(ma.array[h])])]
    ELSE [ma |-> [ma EXCEPT !.clean_mode = 0 - 1], T |-> T, nl |-> 0]

\* The trigger test at the start of NMultiSet without the test of the share.
NMultiSetCleanNoShare(ma, T, M) ==
  IF ma.maxsize > 0 /\ ma.totalsize >= ma.maxsize THEN 0
  ELSE IF M > 0 /\ T >= M THEN 1
  ELSE 0 - 1

\* The trigger test at the start of NMultiSet without the test of the budget
\* of the cache.
NMultiSetCleanNoLocal(ma, T, M) ==
  IF M > 0 /\ T >= M /\ 10 * ma.totalsize > T THEN 1
  ELSE 0 - 1

\* The trigger test at the start of NMultiSet: the clean_mode it sets, or -1
\* when it calls no eviction.
NMultiSetClean(ma, T, M) ==
  IF ma.maxsize > 0 /\ ma.totalsize >= ma.maxsize THEN 0
  ELSE IF M > 0 /\ T >= M /\ 10 * ma.totalsize > T THEN 1
  ELSE 0 - 1

\* The critical section of NMultiSet.
NMultiSetEvict(ma, T, M) ==
  IF NMultiSetClean(ma, T, M) >= 0
    THEN NMultiFreeData([ma EXCEPT !.clean_mode = NMultiSetClean(ma, T, M)], T, M)
    ELSE [ma |-> ma, T |-> T, nl |-> 0]

\* NMultiSetStore that does not account for the block it allocates.
NMultiSetStoreNoBlockBytes(ma, k, d, fresh) ==
  LET h == Hash2At(k, ma.hmask)
      a == ma.array[h]
      j == IF a.dim > 0 THEN NFind(a, k) ELSE 0 - 1
      \* a block is allocated when dim is 0, and when the scan ends with
      \* m = a->block
      grow  == a.dim % a.block = 0
      data0 == IF grow
                 THEN Append(a.data, NewNode([m \in 1..a.block |-> MDataNull]))
                 ELSE a.data
      entry == [index |-> <<k>>, lock |-> NewLock,
                data |-> IF d # NULL THEN d ELSE <<fresh>>]
      data1 == [data0 EXCEPT ![(a.dim \div a.block) + 1] =
                  [@ EXCEPT !.dptr = [@ EXCEPT ![(a.dim % a.block) + 1] = entry]]]
      size  == SizeofLOCK + ma.esize + ma.isize
  IN  IF j >= 0
        THEN [ma |-> IF d # NULL
                       THEN [ma EXCEPT !.array = [@ EXCEPT ![h] =
                               [a EXCEPT !.data =
                                  [@ EXCEPT ![(j \div a.block) + 1] =
                                     [@ EXCEPT !.dptr =
                                        [@ EXCEPT ![(j % a.block) + 1] =
                                           [@ EXCEPT !.data = d]]]]]]]
                       ELSE ma,
              size |-> 0, nl |-> 0]
        ELSE [ma |-> [ma EXCEPT !.array = [@ EXCEPT ![h] =
                                   [a EXCEPT !.data = data1, !.dim = a.dim + 1]],
                                !.totalsize = @ + size,
                                !.numelem = @ + 1],
              size |-> size,
              nl |-> IF USE_MPI = 2 THEN 1 ELSE 0]

\* NMultiSet after its critical section: the cache after the call, the
\* bytes it added to the totals, and the locks it set up.
NMultiSetStore(ma, k, d, fresh) ==
  LET h == Hash2At(k, ma.hmask)
      a == ma.array[h]
      j == IF a.dim > 0 THEN NFind(a, k) ELSE 0 - 1
      \* a block is allocated when dim is 0, and when the scan ends with
      \* m = a->block
      grow  == a.dim % a.block = 0
      data0 == IF grow
                 THEN Append(a.data, NewNode([m \in 1..a.block |-> MDataNull]))
                 ELSE a.data
      entry == [index |-> <<k>>, lock |-> NewLock,
                data |-> IF d # NULL THEN d ELSE <<fresh>>]
      data1 == [data0 EXCEPT ![(a.dim \div a.block) + 1] =
                  [@ EXCEPT !.dptr = [@ EXCEPT ![(a.dim % a.block) + 1] = entry]]]
      size  == (IF grow THEN SizeofDATA + a.bsize ELSE 0)
               + SizeofLOCK + ma.esize + ma.isize
  IN  IF j >= 0
        THEN [ma |-> IF d # NULL
                       THEN [ma EXCEPT !.array = [@ EXCEPT ![h] =
                               [a EXCEPT !.data =
                                  [@ EXCEPT ![(j \div a.block) + 1] =
                                     [@ EXCEPT !.dptr =
                                        [@ EXCEPT ![(j % a.block) + 1] =
                                           [@ EXCEPT !.data = d]]]]]]]
                       ELSE ma,
              size |-> 0, nl |-> 0]
        ELSE [ma |-> [ma EXCEPT !.array = [@ EXCEPT ![h] =
                                   [a EXCEPT !.data = data1, !.dim = a.dim + 1]],
                                !.totalsize = @ + size,
                                !.numelem = @ + 1],
              size |-> size,
              nl |-> IF USE_MPI = 2 THEN 1 ELSE 0]

\* The cache and _totalsize after NMultiSet, and the change in live locks.
NMultiSet(ma, k, d, fresh, T, M) ==
  The({The({[ma |-> s.ma, T |-> e.T + s.size, nl |-> s.nl - e.nl] :
              s \in {NMultiSetStore(e.ma, k, d, fresh)}}) :
         e \in {NMultiSetEvict(ma, T, M)}})

\* NMultiFree: the cache and _totalsize after the call, and the locks it
\* took down.  The bucket table is released with the locks ArrayInit set up
\* in it.
NMultiFree(ma, T, M) ==
  IF ma.ndim <= 0 THEN [ma |-> ma, T |-> T, nl |-> 0]
  ELSE The({[ma |-> [e.ma EXCEPT !.array = NULL, !.lock = "NULL", !.ndim = 0],
             T  |-> e.T,
             nl |-> e.nl + (IF ma.lock # "NULL" THEN 1 ELSE 0)] :
              e \in {NMultiFreeData(ma, T, M)}})

\* Locks the cache holds: its own, those of its buckets, those of its entries.
NLocks(ma) ==
  (IF ma.lock # "NULL" THEN 1 ELSE 0)
  + SumOver(DOMAIN ma.array,
            [h \in DOMAIN ma.array |->
               (IF ma.array[h].lock # "NULL" THEN 1 ELSE 0) + NEntryLocks(ma.array[h])])

\* LimitMultiSize(ma, r) with ma not NULL; with ma NULL it assigns _maxsize.
LimitMultiSize(ma, r) == [ma EXCEPT !.maxsize = r]

(***************************************************************************)
(* State.                                                                  *)
(***************************************************************************)
VARIABLES
  arr,         \* the ARRAY of the block-array operations
  multi,       \* the MULTI structures, by cache
  _totalsize,  \* static double _totalsize
  _maxsize,    \* static double _maxsize
  nlock,       \* locks that InitLock has set up and DestroyLock has not taken down
  fault,       \* an operation has read or freed storage that was already freed
  last,        \* per cache and key, the element most recently stored (ghost)
  ret,         \* the last call and what it returned (ghost)
  wk,          \* per worker, the call it is in: position and locals
  held         \* who holds the critical section, the cache lock, each bucket lock

vars == <<arr, multi, _totalsize, _maxsize, nlock, fault, last, ret, wk, held>>

NoCall == [fn |-> "none"]

(***************************************************************************)
(* Bounds of the block-array runs.                                         *)
(***************************************************************************)
\* Elements per block of the array under test.
ABlock == 2

\* Largest index passed to ArraySet, ArrayGet; ArrayTrim takes up to one more.
MaxIdx == 3

\* Values stored are 1..MaxVal.
MaxVal == 2

Values == 1..MaxVal

\* d: a NULL pointer or a pointer to a value.
DataArgs == {NULL} \cup {<<v>> : v \in Values}

\* What InitIntData leaves in a fresh block.
IntFresh == 0

(***************************************************************************)
(* Block-array operations.                                                 *)
(***************************************************************************)
AInit ==
  /\ arr = ArrayInit(4, ABlock)
  /\ multi = <<>>
  /\ _totalsize = 0
  /\ _maxsize = 0 - 1
  /\ nlock = (IF arr.lock # "NULL" THEN 1 ELSE 0)
  /\ fault = FALSE
  /\ last = <<>>
  /\ ret = NoCall
  /\ wk = <<>>
  /\ held = <<>>

AFrame == UNCHANGED <<multi, _totalsize, _maxsize, last, wk, held>>

\* An operation that reads or frees freed storage has no defined outcome:
\* the build either goes on with the stale storage or stops.
Crash(call) ==
  /\ fault' = TRUE
  /\ ret' = call
  /\ UNCHANGED <<arr, nlock, wk, held>>

ASet(i, d) ==
  /\ ~fault
  /\ \/ /\ arr' = ArraySet(arr, i, d, IntFresh)
        /\ ret' = [fn |-> "Set", i |-> i, val |-> <<ArraySetPt(arr, i, d, IntFresh)>>]
        /\ UNCHANGED <<nlock, fault>>
     \/ /\ SetTouchesFreed(arr, i)
        /\ Crash([fn |-> "Set", i |-> i, val |-> NULL])
  /\ AFrame

AAppend(d) ==
  /\ ~fault
  /\ arr.dim <= MaxIdx
  /\ \/ /\ arr' = ArrayAppend(arr, d, IntFresh)
        /\ ret' = [fn |-> "Append", i |-> arr.dim,
                   val |-> <<ArraySetPt(arr, arr.dim, d, IntFresh)>>]
        /\ UNCHANGED <<nlock, fault>>
     \/ /\ SetTouchesFreed(arr, arr.dim)
        /\ Crash([fn |-> "Append", i |-> arr.dim, val |-> NULL])
  /\ AFrame

AGet(i) ==
  /\ ~fault
  /\ ret' = [fn |-> "Get", i |-> i, val |-> ArrayGet(arr, i)]
  /\ UNCHANGED <<arr, nlock, fault, wk, held>>
  /\ AFrame

ATrim(n) ==
  /\ ~fault
  /\ \/ /\ arr' = ArrayTrim(arr, n)
        /\ nlock' = nlock - TrimFreeLocks(arr, n)
        /\ ret' = [fn |-> "Trim", i |-> n, val |-> NULL, dim0 |-> arr.dim]
        /\ UNCHANGED fault
     \/ /\ TrimTouchesFreed(arr, n)
        /\ Crash([fn |-> "Trim", i |-> n, val |-> NULL])
  /\ AFrame

AFree ==
  /\ ~fault
  /\ \/ /\ arr' = ArrayFree(arr)
        /\ nlock' = nlock - ArrayFreeLocks(arr)
        /\ ret' = [fn |-> "Free", i |-> 0, val |-> NULL]
        /\ UNCHANGED fault
     \/ /\ arr.dim # 0 /\ HasFreed(arr.data)
        /\ Crash([fn |-> "Free", i |-> 0, val |-> NULL])
  /\ AFrame

ANext ==
  \/ \E i \in 0..MaxIdx, d \in DataArgs : ASet(i, d)
  \/ \E d \in DataArgs : AAppend(d)
  \/ \E i \in 0..MaxIdx : AGet(i)
  \/ \E n \in 0..(MaxIdx + 1) : ATrim(n)
  \/ AFree

SpecA == AInit /\ [][ANext]_vars

(***************************************************************************)
(* Dense and hybrid multi-array operations.  A run starts from one array,  *)
(* set up by SMultiInit or by MMultiInit, of two dimensions and blocks of  *)
(* four by four.                                                           *)
(***************************************************************************)
DBlock == <<4, 4>>

\* Keys stored in the dense array.
SKeys == {<<0, 1>>, <<1, 2>>, <<1, 3>>, <<1, 5>>, <<5, 2>>}

\* Keys stored in the hybrid array: two on the fast path, two in one
\* super-cell, and two whose quotients 6946 and 6946 + 5 * 65536 have the
\* same hash under HashMask(2).
MKeys ==
  {<<1, 2>>, <<1, 3>>, <<5, 1>>, <<5, 2>>, <<27785, 2>>, <<1338505, 2>>}

\* Keys that are looked up and never stored.
MGetKeys == MKeys \cup {<<0 - 1, 2>>, <<4, 0>>}

DKeys(ma) == IF ma.kind = "S" THEN SKeys ELSE MKeys

DGetKeys(ma) == IF ma.kind = "S" THEN SKeys ELSE MGetKeys

\* The buckets the hybrid keys reach under a mask.
MBuckets(hmask) ==
  {h \in {Hash2At(v, hmask) : v \in MVecs} : h >= 0 /\ h < HashSize(2)}

\* The budget passed to LimitMultiSize.
DBudget == 1

\* The value stored.
DVal == 1

\* d: a NULL pointer or a pointer to the value.
DData == {NULL, <<DVal>>}

DInit ==
  /\ arr = ArrayInit(4, ABlock)
  /\ \/ multi = <<SMultiInit(4, 2, DBlock)>>
     \/ \E hmask \in HashMasks :
          multi = <<MMultiInit(4, 2, DBlock, hmask, MBuckets(hmask))>>
  /\ _totalsize = 0
  /\ _maxsize = 0 - 1
  /\ nlock = (IF multi[1].kind = "M" /\ USE_MPI = 2
                THEN 2 * Cardinality(DOMAIN multi[1].ia) + 1 ELSE 0)
  /\ fault = FALSE
  /\ last = <<[k \in DGetKeys(multi[1]) |-> NULL]>>
  /\ ret = NoCall
  /\ wk = <<>>
  /\ held = <<>>

\* What a later Get of the key is to find: the data of the Set, or what the
\* slot held when the Set passed no data.
Stored(old, d) == IF d # NULL THEN d ELSE IF old = NULL THEN <<IntFresh>> ELSE old

DSet(k, d) ==
  /\ ~fault
  /\ k \in DKeys(multi[1])
  /\ IF multi[1].kind = "S"
       THEN /\ multi' = <<SMultiSet(multi[1], k, d, IntFresh)>>
            /\ nlock' = nlock + SMultiSetLocks(multi[1], k, d, IntFresh)
            /\ last' = [last EXCEPT ![1][k] = Stored(@, d)]
            /\ UNCHANGED fault
       ELSE IF MOutside(multi[1], k)
         THEN /\ multi' = <<MMultiIndex(multi[1], k)>>
              /\ fault' = TRUE
              /\ UNCHANGED <<nlock, last>>
         ELSE /\ multi' = <<MMultiSet(multi[1], k, d, IntFresh)>>
              /\ last' = [last EXCEPT ![1][k] = Stored(@, d)]
              /\ UNCHANGED <<nlock, fault>>
  /\ ret' = [fn |-> "MultiSet", k |-> k, val |-> NULL]
  /\ UNCHANGED <<arr, _totalsize, _maxsize, wk, held>>

DGet(k) ==
  /\ ~fault
  /\ k \in DGetKeys(multi[1])
  /\ IF multi[1].kind = "S"
       THEN /\ ret' = [fn |-> "MultiGet", k |-> k, val |-> SMultiGet(multi[1], k)]
            /\ UNCHANGED <<multi, fault>>
       ELSE IF MOutside(multi[1], k)
         THEN /\ multi' = <<MMultiIndex(multi[1], k)>>
              /\ fault' = TRUE
              /\ ret' = [fn |-> "MultiGet", k |-> k, val |-> NULL]
         ELSE /\ multi' = <<MMultiIndex(multi[1], k)>>
              /\ ret' = [fn |-> "MultiGet", k |-> k, val |-> MMultiGet(multi[1], k)]
              /\ UNCHANGED fault
  /\ UNCHANGED <<arr, _totalsize, _maxsize, nlock, last, wk, held>>

DLimit ==
  /\ ~fault
  /\ multi[1].maxsize # DBudget
  /\ multi' = <<LimitMultiSize(multi[1], DBudget)>>
  /\ ret' = [fn |-> "Limit", k |-> <<>>, val |-> NULL]
  /\ UNCHANGED <<arr, _totalsize, _maxsize, nlock, fault, last, wk, held>>

DNext ==
  \/ \E k \in SKeys \cup MKeys, d \in DData : DSet(k, d)
  \/ \E k \in SKeys \cup MGetKeys : DGet(k)
  \/ DLimit

SpecD == DInit /\ [][DNext]_vars

(***************************************************************************)
(* The index array.  An IDXARY is a record of n, d (element k of the C     *)
(* array is d[k + 1]), m0, m1, m and the table i, a function on 0..m-1     *)
(* (NULL when n is 0).                                                     *)
(***************************************************************************)
RECURSIVE IdxMin(_, _)
IdxMin(d, k) ==
  IF k = 0 THEN d[1]
  ELSE LET m0 == IdxMin(d, k - 1) IN IF m0 > d[k + 1] THEN d[k + 1] ELSE m0

RECURSIVE IdxMax(_, _)
IdxMax(d, k) ==
  IF k = 0 THEN d[1]
  ELSE LET m1 == IdxMax(d, k - 1) IN IF m1 < d[k + 1] THEN d[k + 1] ELSE m1

\* The table after the iterations 0..k-1 of the last loop of InitIdxAry.
RECURSIVE IdxFill(_, _, _, _)
IdxFill(d, m0, m, k) ==
  IF k = 0 THEN [j \in 0..(m - 1) |-> 0 - 1]
  ELSE [IdxFill(d, m0, m, k - 1) EXCEPT ![d[k] - m0] = k - 1]

InitIdxAry(n, d) ==
  IF n = 0
    THEN [n |-> 0, d |-> NULL, m0 |-> 0, m1 |-> 0, m |-> 0, i |-> NULL]
    ELSE LET m0 == IdxMin(d, n - 1)
             m1 == IdxMax(d, n - 1)
         IN  [n |-> n, d |-> d, m0 |-> m0, m1 |-> m1, m |-> 1 + m1 - m0,
              i |-> IdxFill(d, m0, 1 + m1 - m0, n)]

\* IdxGet that answers -2 on both sides of the range.
IdxGetOutsideSame(ia, d) ==
  IF d < ia.m0 THEN 0 - 2
  ELSE IF d > ia.m1 THEN 0 - 2
  ELSE ia.i[d - ia.m0]

IdxGet(ia, d) ==
  IF d < ia.m0 THEN 0 - 1
  ELSE IF d > ia.m1 THEN 0 - 2
  ELSE ia.i[d - ia.m0]

\* Whether IdxGet reads the table of an IDXARY that has none.
IdxGetTouchesNull(ia, d) == ia.i = NULL /\ d >= ia.m0 /\ d <= ia.m1

(***************************************************************************)
(* Runs of the index array: arr holds an IDXARY initialised over any       *)
(* sequence of up to IMaxLen integers of -1..IMaxVal, and IdxGet is called *)
(* with the values of -2..IMaxVal + 1.                                     *)
(***************************************************************************)
IMaxLen == 3

IMaxVal == 3

IDomains ==
  UNION {[1..n -> (0 - 1)..IMaxVal] : n \in 0..IMaxLen}

IInit ==
  /\ \E d \in IDomains : arr = InitIdxAry(Len(d), d)
  /\ multi = <<>>
  /\ _totalsize = 0
  /\ _maxsize = 0 - 1
  /\ nlock = 0
  /\ fault = FALSE
  /\ last = <<>>
  /\ ret = NoCall
  /\ wk = <<>>
  /\ held = <<>>

IIdxGet(v) ==
  /\ ~fault
  /\ IF IdxGetTouchesNull(arr, v)
       THEN /\ fault' = TRUE
            /\ ret' = [fn |-> "IdxGet", i |-> v, val |-> 0]
       ELSE /\ ret' = [fn |-> "IdxGet", i |-> v, val |-> IdxGet(arr, v)]
            /\ UNCHANGED fault
  /\ UNCHANGED <<arr, multi, _totalsize, _maxsize, nlock, last, wk, held>>

INext == \E v \in (0 - 2)..(IMaxVal + 1) : IIdxGet(v)

SpecI == IInit /\ [][INext]_vars

(***************************************************************************)
(* Appending and copying out.  A run starts from an empty array of any     *)
(* block capacity up to CMaxBlock, appends up to CMaxLen elements and      *)
(* calls ArrayContiguous; last is the sequence of the elements appended.   *)
(***************************************************************************)
CMaxBlock == 3

CMaxLen == 4

CInit ==
  /\ \E b \in 1..CMaxBlock : arr = ArrayInit(4, b)
  /\ multi = <<>>
  /\ _totalsize = 0
  /\ _maxsize = 0 - 1
  /\ nlock = (IF arr.lock # "NULL" THEN 1 ELSE 0)
  /\ fault = FALSE
  /\ last = <<>>
  /\ ret = NoCall
  /\ wk = <<>>
  /\ held = <<>>

CAppend(d) ==
  /\ ~fault
  /\ arr.dim < CMaxLen
  /\ arr' = ArrayAppend(arr, d, IntFresh)
  /\ last' = Append(last, IF d # NULL THEN d[1] ELSE IntFresh)
  /\ ret' = [fn |-> "Append", i |-> arr.dim, val |-> NULL]
  /\ UNCHANGED <<multi, _totalsize, _maxsize, nlock, fault, wk, held>>

CContiguous ==
  /\ ~fault
  /\ IF ContiguousTouchesBad(arr)
       THEN /\ fault' = TRUE
            /\ ret' = [fn |-> "Contiguous", i |-> 0, val |-> NULL]
       ELSE /\ ret' = [fn |-> "Contiguous", i |-> 0, val |-> ArrayContiguous(arr)]
            /\ UNCHANGED fault
  /\ UNCHANGED <<arr, multi, _totalsize, _maxsize, nlock, last, wk, held>>

CNext ==
  \/ \E d \in DataArgs : CAppend(d)
  \/ CContiguous

SpecC == CInit /\ [][CNext]_vars

(***************************************************************************)
(* C10.  ArrayTrim(a, m) on an array whose chain holds no freed block      *)
(* (one built by ArrayAppend and ArraySet): with m below the length, the   *)
(* length becomes m, ArrayGet of every index below m returns what it       *)
(* returned before, and ArrayGet of every index from m on returns NULL;    *)
(* with m at or above the length, the array is left as it was.             *)
(***************************************************************************)
C10_TrimKeepsPrefix ==
  [][(ret'.fn = "Trim" /\ ~HasFreed(arr.data)) =>
       /\ ~fault'
       /\ IF ret'.i < arr.dim
            THEN /\ arr'.dim = ret'.i
                 /\ \A i \in 0..(ret'.i - 1) : ArrayGet(arr', i) = ArrayGet(arr, i)
                 /\ \A i \in ret'.i..(MaxIdx + 2) : ArrayGet(arr', i) = NULL
            ELSE arr' = arr]_vars

\* A trim to a whole number of blocks, below the length, has kept a stored value.
C10_Witness ==
  /\ ret.fn = "Trim"
  /\ ret.i > 0 /\ ret.i < ret.dim0 /\ ret.i % ABlock = 0
  /\ arr.dim = ret.i
  /\ \E v \in Values : ArrayGet(arr, ret.i - 1) = <<v>>
  /\ ~fault

(***************************************************************************)
(* Hash-sparse operations, single worker.  A run starts from two caches    *)
(* set up by NMultiInit: cache 1 with small elements, cache 2 with large   *)
(* ones, so that the share of cache 1 in the global total can lie on       *)
(* either side of one tenth.                                               *)
(***************************************************************************)
NCaches == {1, 2}

\* Colliding keys a run stores in cache 1; one more is looked up only.
FillKeys == 9

\* Budgets passed to LimitMultiSize for a cache and for the process.
LocalBudget == 250

GlobalBudget == 2500

NESize == <<8, 2048>>

\* What the storage of numelem held before NMultiInit.
NumelemRaw == {0, 0 - 3}

\* Keys stored in cache c.
NKeys(c) ==
  IF c = 1 THEN {NKeyList[i] : i \in 1..FillKeys} \cup {NOtherKey}
           ELSE {NOtherKey}

\* Keys whose Set passes data and is repeated; the other keys are stored
\* once, by a Set that passes NULL.
NDataKeys == {NKeyList[1], NKeyList[FillKeys], NOtherKey}

\* Keys a Get asks for: those, and a colliding key that is never stored.
NGetKeys == NDataKeys \cup {NKeyList[FillKeys + 1]}

\* Every key of the runs.
NAllKeys == NKeys(1) \cup NGetKeys

NBuckets == {Hash2At(k, HashMask(2)) : k \in NAllKeys}

NInit ==
  /\ arr = ArrayInit(4, ABlock)
  /\ \E g \in NumelemRaw :
       multi = <<NMultiInit(NESize[1], 2, g, NBuckets),
                 NMultiInit(NESize[2], 2, 0, NBuckets)>>
  /\ _totalsize = 0
  /\ _maxsize = 0 - 1
  /\ nlock = NLocks(multi[1]) + NLocks(multi[2])
  /\ fault = FALSE
  /\ last = <<[k \in NAllKeys |-> NULL], [k \in NAllKeys |-> NULL]>>
  /\ ret = NoCall
  /\ wk = <<>>
  /\ held = <<>>

\* The colliding keys enter their bucket in the order of NKeyList, and only
\* the keys of NDataKeys are set again once stored.
NInOrder(ma, k) ==
  IF NMultiGet(ma, k) # NULL
    THEN k \in NDataKeys
    ELSE \/ k = NOtherKey
         \/ k = NKeyList[ma.array[Hash2At(k, ma.hmask)].dim + 1]

\* NSet whose eviction clears every cache of the process, not only cache c.
NSetEvictsEveryCache(c, k, d) ==
  /\ multi[c].ndim > 0
  /\ k \in NKeys(c)
  /\ NInOrder(multi[c], k)
  /\ d # NULL => k \in NDataKeys
  /\ LET r == NMultiSet(multi[c], k, d, IntFresh, _totalsize, _maxsize)
         m == NMultiSetClean(multi[c], _totalsize, _maxsize)
     IN  /\ multi' = [c2 \in DOMAIN multi |->
                        IF c2 = c THEN r.ma
                        ELSE IF m >= 0 /\ multi[c2].ndim > 0
                          THEN NMultiFreeDataKeepsGlobal(multi[c2], 0, 0).ma
                          ELSE multi[c2]]
         /\ _totalsize' = r.T
         /\ nlock' = nlock + r.nl
         /\ last' = [c2 \in DOMAIN last |->
                       [k2 \in DOMAIN last[c2] |->
                          IF c2 = c /\ k2 = k
                            THEN Stored(IF m >= 0 THEN NULL ELSE last[c2][k], d)
                            ELSE IF m >= 0 THEN NULL ELSE last[c2][k2]]]
         /\ ret' = [fn |-> "NSet", c |-> c, k |-> k, clean |-> m]
  /\ UNCHANGED <<arr, _maxsize, fault, wk, held>>

NSet(c, k, d) ==
  /\ multi[c].ndim > 0
  /\ k \in NKeys(c)
  /\ NInOrder(multi[c], k)
  /\ d # NULL => k \in NDataKeys
  /\ LET r == NMultiSet(multi[c], k, d, IntFresh, _totalsize, _maxsize)
         m == NMultiSetClean(multi[c], _totalsize, _maxsize)
     IN  /\ multi' = [multi EXCEPT ![c] = r.ma]
         /\ _totalsize' = r.T
         /\ nlock' = nlock + r.nl
         /\ last' = [last EXCEPT ![c] =
                       [k2 \in DOMAIN @ |->
                          IF k2 = k
                            THEN Stored(IF m >= 0 THEN NULL ELSE @[k], d)
                            ELSE IF m >= 0 THEN NULL ELSE @[k2]]]
         /\ ret' = [fn |-> "NSet", c |-> c, k |-> k, clean |-> m]
  /\ UNCHANGED <<arr, _maxsize, fault, wk, held>>

NGet(c, k) ==
  /\ multi[c].ndim > 0
  /\ k \in NGetKeys
  /\ ret' = [fn |-> "NGet", c |-> c, k |-> k, clean |-> 0 - 1]
  /\ UNCHANGED <<arr, multi, _totalsize, _maxsize, nlock, fault, last, wk, held>>

NLimit(c, r) ==
  /\ multi[c].ndim > 0
  /\ multi[c].maxsize # r
  /\ multi' = [multi EXCEPT ![c] = LimitMultiSize(@, r)]
  /\ ret' = [fn |-> "NLimit", c |-> c, k |-> <<>>, clean |-> 0 - 1]
  /\ UNCHANGED <<arr, _totalsize, _maxsize, nlock, fault, last, wk, held>>

NLimitGlobal(r) ==
  /\ _maxsize # r
  /\ _maxsize' = r
  /\ ret' = [fn |-> "NLimit", c |-> 0, k |-> <<>>, clean |-> 0 - 1]
  /\ UNCHANGED <<arr, multi, _totalsize, nlock, fault, last, wk, held>>

NFreeData(c) ==
  /\ multi[c].ndim > 0
  /\ LET r == NMultiFreeData(multi[c], _totalsize, _maxsize)
     IN  /\ multi' = [multi EXCEPT ![c] = r.ma]
         /\ _totalsize' = r.T
         /\ nlock' = nlock - r.nl
  /\ last' = [last EXCEPT ![c] = [k2 \in DOMAIN @ |-> NULL]]
  /\ ret' = [fn |-> "NFreeData", c |-> c, k |-> <<>>, clean |-> 0 - 1]
  /\ UNCHANGED <<arr, _maxsize, fault, wk, held>>

NFree(c) ==
  /\ multi[c].ndim > 0
  /\ LET r == NMultiFree(multi[c], _totalsize, _maxsize)
     IN  /\ multi' = [multi EXCEPT ![c] = r.ma]
         /\ _totalsize' = r.T
         /\ nlock' = nlock - r.nl
  /\ last' = [last EXCEPT ![c] = [k2 \in DOMAIN @ |-> NULL]]
  /\ ret' = [fn |-> "NFree", c |-> c, k |-> <<>>, clean |-> 0 - 1]
  /\ UNCHANGED <<arr, _maxsize, fault, wk, held>>

\* Cache 2 is set and looked up; the budget, the flush and the teardown are
\* those of cache 1.
NNext ==
  \/ \E c \in NCaches, k \in NKeys(1), d \in DData : NSet(c, k, d)
  \/ \E c \in NCaches, k \in NGetKeys : NGet(c, k)
  \/ \E r \in {0, LocalBudget} : NLimit(1, r)
  \/ NLimitGlobal(GlobalBudget)
  \/ NFreeData(1)
  \/ NFree(1)

SpecN == NInit /\ [][NNext]_vars

(***************************************************************************)
(* Workers.  Several workers call NMultiSet and NMultiGet on one           *)
(* hash-sparse cache at once.  A call advances by one access to shared     *)
(* storage at a time; wk[w] is the frame of worker w: pc is the line of    *)
(* array.c it is about to execute, the other fields are the locals of the  *)
(* call.  A pointer to a block of a bucket's chain is <<n>>, n the place   *)
(* of the block in the chain; a pointer to an MDATA slot is <<n, s>>;       *)
(* stale says that the storage the pointers of the frame refer to has been *)
(* freed since they were loaded.  A worker that reads through a freed, an  *)
(* uninitialised or a NULL pointer stops the process: fault is set and pc  *)
(* names the pointer.  last counts the calls started; ret is the last      *)
(* NMultiGet that returned.                                                *)
(***************************************************************************)
Workers == {1, 2}

\* Entries the colliding bucket holds when the workers start.
WPrefill == 7

\* Calls the workers start in a run.
WCalls == 3

\* The budget of the cache, when it has one, is reached by one more entry.

WKeyA == NKeyList[WPrefill + 1]

WKeyB == NKeyList[WPrefill + 2]

WSetKeys == {NKeyList[1], WKeyA, WKeyB, NOtherKey}

WGetKeys == {WKeyB}

\* The cache and _totalsize after NMultiSet of the first n colliding keys.
RECURSIVE WFilled(_)
WFilled(n) ==
  IF n = 0
    THEN [ma |-> NMultiInit(NESize[1], 2, 0, NBuckets), T |-> 0, nl |-> 0]
    ELSE The({NMultiSet(r.ma, NKeyList[n], NULL, IntFresh, r.T, 0 - 1) :
                r \in {WFilled(n - 1)}})

Idle ==
  [pc |-> "idle", fn |-> "none", k |-> <<>>, d |-> NULL, h |-> 0,
   locked |-> 0, i |-> 0, j |-> 0, m |-> 0, p |-> NULL, p0 |-> NULL,
   pt |-> NULL, size |-> 0, tmp |-> 0, stale |-> FALSE]

WInit ==
  /\ arr = ArrayInit(4, ABlock)
  /\ \E r \in {0 - 1, WFilled(WPrefill).ma.totalsize + SizeofLOCK + NESize[1] + 8} :
       multi = <<LimitMultiSize(WFilled(WPrefill).ma, r)>>
  /\ _totalsize = WFilled(WPrefill).T
  /\ _maxsize = 0 - 1
  /\ nlock = NLocks(multi[1])
  /\ fault = FALSE
  /\ last = 0
  /\ ret = NoCall
  /\ wk = [w \in Workers |-> Idle]
  /\ held = [crit |-> 0, cache |-> 0, bucket |-> [h \in NBuckets |-> 0]]

\* The MDATA slots of the chain of bucket a, and the slot pt points to.
WSlots(a) == {<<n, s>> : n \in 1..Len(a.data), s \in 1..a.block}

WSlot(a, pt) == a.data[pt[1]].dptr[pt[2]]

\* Whether a frame holds a pointer into the chain of its bucket.
WHoldsPtr(f) == f.p # NULL \/ f.p0 # NULL \/ f.pt # NULL

\* The positions of a call between the malloc of a block and the
\* assignment of its next field.
WAllocPcs ==
  {"l770", "l770s", "l771", "l771s", "l772",
   "l848", "l848s", "l849", "l849s", "l850"}

\* Whether the next field of block n of bucket h is not assigned yet.
WUninit(h, n) ==
  /\ n = Len(multi[1].array[h].data)
  /\ \E x \in Workers : wk[x].h = h /\ wk[x].pc \in WAllocPcs

\* The position after each step of "ma->totalsize += size; _totalsize += size".
WPcAfter ==
  [l770 |-> "l770s", l770s |-> "l771", l771 |-> "l771s", l771s |-> "l772",
   l848 |-> "l848s", l848s |-> "l849", l849 |-> "l849s", l849s |-> "l850",
   l868 |-> "l868s", l868s |-> "l870", l870 |-> "l870s", l870s |-> "l871"]

WCrash(w, why) ==
  /\ wk' = [wk EXCEPT ![w].pc = why]
  /\ fault' = TRUE
  /\ UNCHANGED <<arr, multi, _totalsize, _maxsize, nlock, last, ret, held>>

\* memcpy(pt->data, d, ma->esize) into the slot after pt.
MemcpyDataNextSlot(a, pt, d) ==
  [a EXCEPT !.data[pt[1]].dptr[pt[2] + 1].data = d]

\* memcpy(pt->data, d, ma->esize).
MemcpyData(a, pt, d) ==
  [a EXCEPT !.data[pt[1]].dptr[pt[2]].data = d]

\* The second scan of NMultiSet, from the test of the for loop (RescanFor)
\* and from the test of the while loop (RescanWhile).  s: j, m, p (0 for
\* NULL), p0, pt and out, which ends as "found", "null" (the index compared
\* is NULL) or "none".
RECURSIVE RescanFor(_, _, _)
RECURSIVE RescanWhile(_, _, _)
RescanFor(a, k, s) ==
  IF s.m < a.block /\ s.j < a.dim
    THEN IF WSlot(a, <<s.p, s.m + 1>>).index = NULL
           THEN [s EXCEPT !.out = "null"]
         ELSE IF WSlot(a, <<s.p, s.m + 1>>).index = <<k>>
           THEN [s EXCEPT !.out = "found", !.pt = <<s.p, s.m + 1>>]
         ELSE RescanFor(a, k, [s EXCEPT !.j = @ + 1, !.m = @ + 1,
                                        !.pt = <<s.p, s.m + 2>>])
    ELSE IF s.m = a.block
           THEN IF s.p < Len(a.data)
                  THEN RescanWhile(a, k, [s EXCEPT !.p0 = s.p, !.p = s.p + 1,
                                                   !.pt = <<s.p + 1, 1>>])
                  ELSE [s EXCEPT !.p0 = s.p, !.p = 0]
           ELSE RescanWhile(a, k, s)

RescanWhile(a, k, s) ==
  IF s.p # 0 /\ s.j < a.dim THEN RescanFor(a, k, s) ELSE s

WSetCall(w, k, d) ==
  /\ ~fault /\ wk[w].pc = "idle" /\ last < WCalls
  /\ wk' = [wk EXCEPT ![w] =
              [Idle EXCEPT !.pc = "l745", !.fn = "Set", !.k = k, !.d = d]]
  /\ last' = last + 1
  /\ UNCHANGED <<arr, multi, _totalsize, _maxsize, nlock, fault, ret, held>>

WGetCall(w, k) ==
  /\ ~fault /\ wk[w].pc = "idle" /\ last < WCalls
  /\ wk' = [wk EXCEPT ![w] = [Idle EXCEPT !.pc = "l718", !.fn = "Get", !.k = k]]
  /\ last' = last + 1
  /\ UNCHANGED <<arr, multi, _totalsize, _maxsize, nlock, fault, ret, held>>

\* The critical section up to the first bucket of the loop of NMultiFreeData.
WCritical(w) ==
  /\ ~fault /\ wk[w].pc = "l745" /\ held.crit = 0
  /\ LET c   == NMultiSetClean(multi[1], _totalsize, _maxsize)
         ma1 == [multi[1] EXCEPT !.clean_mode = c]
     IN  IF c >= 0 /\ NClean(ma1, _totalsize, _maxsize)
           THEN /\ multi' = <<ma1>>
                /\ held' = [held EXCEPT !.crit = w, !.cache = w]
                /\ wk' = [wk EXCEPT ![w].pc = "l954",
                                    ![w].i = CHOOSE h \in NBuckets :
                                               \A g \in NBuckets : h <= g]
           ELSE /\ wk' = [wk EXCEPT ![w].pc = "l757"]
                /\ UNCHANGED <<multi, held>>
  /\ UNCHANGED <<arr, _totalsize, _maxsize, nlock, fault, last, ret>>

\* One turn of the loop of NMultiFreeData: the bucket is locked, freed and
\* unlocked.
WEvictBucket(w) ==
  /\ ~fault /\ wk[w].pc = "l954"
  /\ held.bucket[wk[w].i] = 0
  /\ LET h     == wk[w].i
         a     == multi[1].array[h]
         later == {g \in NBuckets : g > h}
     IN  /\ multi' = [multi EXCEPT ![1].array[h] = NMultiFreeDataOnly(a)]
         /\ nlock' = nlock - (IF a.dim = 0 THEN 0
                              ELSE Cardinality({pt \in WSlots(a) :
                                                  WSlot(a, pt).lock # "NULL"}))
         /\ wk' = [x \in Workers |->
                     IF x = w
                       THEN IF later = {}
                              THEN [wk[w] EXCEPT !.pc = "l960", !.i = 0]
                              ELSE [wk[w] EXCEPT !.i = CHOOSE g \in later :
                                                         \A g2 \in later : g <= g2]
                     ELSE IF wk[x].h = h /\ a.dim # 0 /\ WHoldsPtr(wk[x])
                       THEN [wk[x] EXCEPT !.stale = TRUE]
                     ELSE wk[x]]
  /\ UNCHANGED <<arr, _totalsize, _maxsize, fault, last, ret, held>>

\* "_totalsize -= ma->totalsize": the loads, then the store.
WEvictLoad(w) ==
  /\ ~fault /\ wk[w].pc = "l960"
  /\ wk' = [wk EXCEPT ![w].pc = "l960s",
                      ![w].tmp = _totalsize - multi[1].totalsize]
  /\ UNCHANGED <<arr, multi, _totalsize, _maxsize, nlock, fault, last, ret, held>>

WEvictStore(w) ==
  /\ ~fault /\ wk[w].pc = "l960s"
  /\ _totalsize' = wk[w].tmp
  /\ wk' = [wk EXCEPT ![w].pc = "l961", ![w].tmp = 0]
  /\ UNCHANGED <<arr, multi, _maxsize, nlock, fault, last, ret, held>>

WEvictEnd(w) ==
  /\ ~fault /\ wk[w].pc = "l961"
  /\ multi' = [multi EXCEPT ![1].totalsize = 0, ![1].numelem = 0,
                            ![1].clean_mode = 0 - 1]
  /\ held' = [held EXCEPT !.crit = 0, !.cache = 0]
  /\ wk' = [wk EXCEPT ![w].pc = "l757"]
  /\ UNCHANGED <<arr, _totalsize, _maxsize, nlock, fault, last, ret>>

WHash(w) ==
  /\ ~fault /\ wk[w].pc = "l757"
  /\ LET h == Hash2At(wk[w].k, multi[1].hmask)
     IN  wk' = [wk EXCEPT ![w].h = h,
                          ![w].pc = IF multi[1].array[h].dim = 0
                                      THEN "l762" ELSE "l777"]
  /\ UNCHANGED <<arr, multi, _totalsize, _maxsize, nlock, fault, last, ret, held>>

WLockEmpty(w) ==
  /\ ~fault /\ wk[w].pc = "l762"
  /\ held.bucket[wk[w].h] = 0
  /\ held' = [held EXCEPT !.bucket[wk[w].h] = w]
  /\ wk' = [wk EXCEPT ![w].locked = 1,
                      ![w].pc = IF multi[1].array[wk[w].h].dim = 0
                                  THEN "l767" ELSE "l777"]
  /\ UNCHANGED <<arr, multi, _totalsize, _maxsize, nlock, fault, last, ret>>

WAllocFirst(w) ==
  /\ ~fault /\ wk[w].pc = "l767"
  /\ LET h == wk[w].h
         a == multi[1].array[h]
     IN  /\ multi' = [multi EXCEPT ![1].array[h].data =
                        <<NewNode([m \in 1..a.block |-> MDataNull])>>]
         /\ wk' = [wk EXCEPT ![w].size = SizeofDATA + a.bsize, ![w].pc = "l770"]
  /\ UNCHANGED <<arr, _totalsize, _maxsize, nlock, fault, last, ret, held>>

\* "ma->totalsize += size": the load, then the store; numelem goes with
\* the store of line 868.
WLoadLocal(w) ==
  /\ ~fault /\ wk[w].pc \in {"l770", "l848", "l868"}
  /\ wk' = [wk EXCEPT ![w].tmp = multi[1].totalsize,
                      ![w].pc = WPcAfter[wk[w].pc]]
  /\ UNCHANGED <<arr, multi, _totalsize, _maxsize, nlock, fault, last, ret, held>>

WStoreLocal(w) ==
  /\ ~fault /\ wk[w].pc \in {"l770s", "l848s", "l868s"}
  /\ multi' = [multi EXCEPT ![1].totalsize = wk[w].tmp + wk[w].size,
                            ![1].numelem = IF wk[w].pc = "l868s" THEN @ + 1 ELSE @]
  /\ wk' = [wk EXCEPT ![w].tmp = 0, ![w].pc = WPcAfter[wk[w].pc]]
  /\ UNCHANGED <<arr, _totalsize, _maxsize, nlock, fault, last, ret, held>>

\* "_totalsize += size": the load, then the store.
WLoadGlobal(w) ==
  /\ ~fault /\ wk[w].pc \in {"l771", "l849", "l870"}
  /\ wk' = [wk EXCEPT ![w].tmp = _totalsize, ![w].pc = WPcAfter[wk[w].pc]]
  /\ UNCHANGED <<arr, multi, _totalsize, _maxsize, nlock, fault, last, ret, held>>

WStoreGlobal(w) ==
  /\ ~fault /\ wk[w].pc \in {"l771s", "l849s", "l870s"}
  /\ _totalsize' = wk[w].tmp + wk[w].size
  /\ wk' = [wk EXCEPT ![w].tmp = 0, ![w].pc = WPcAfter[wk[w].pc]]
  /\ UNCHANGED <<arr, multi, _maxsize, nlock, fault, last, ret, held>>

\* InitMDataData, "next = NULL" and "pt = dptr" for the first block (772)
\* and for a block added to the chain (850).
WInitBlock(w) ==
  /\ ~fault /\ wk[w].pc \in {"l772", "l850"}
  /\ wk' = [wk EXCEPT ![w].pt = IF wk[w].pc = "l772" THEN <<1, 1>>
                                                     ELSE <<wk[w].p[1], 1>>,
                      ![w].pc = IF wk[w].pc = "l772" THEN "l777" ELSE "l856"]
  /\ UNCHANGED <<arr, multi, _totalsize, _maxsize, nlock, fault, last, ret, held>>

WCheckDim(w) ==
  /\ ~fault /\ wk[w].pc = "l777"
  /\ LET a == multi[1].array[wk[w].h]
     IN  IF a.dim > 0
           THEN IF a.data = NULL
                  THEN WCrash(w, "null")
                  ELSE /\ wk' = [wk EXCEPT ![w].p = <<1>>, ![w].i = a.dim,
                                           ![w].j = 0, ![w].p0 = <<1>>,
                                           ![w].pt = <<1, 1>>, ![w].pc = "l783"]
                       /\ UNCHANGED <<arr, multi, _totalsize, _maxsize, nlock,
                                      fault, last, ret, held>>
           ELSE /\ wk' = [wk EXCEPT ![w].pc = "l856"]
                /\ UNCHANGED <<arr, multi, _totalsize, _maxsize, nlock,
                               fault, last, ret, held>>

\* The first scan, over the entries 0..i-1.
WScan(w) ==
  /\ ~fault /\ wk[w].pc = "l783"
  /\ LET f    == wk[w]
         a    == multi[1].array[f.h]
         hits == {jj \in 0..(f.i - 1) : NEntryAt(a, jj).index \in {NULL, <<f.k>>}}
         hit  == CHOOSE jj \in hits : \A j2 \in hits : jj <= j2
         nb   == ((f.i - 1) \div a.block) + 1
         mm   == f.i - (nb - 1) * a.block
     IN  IF f.stale THEN WCrash(w, "freed")
         ELSE IF hits # {} /\ NEntryAt(a, hit).index = NULL THEN WCrash(w, "null")
         ELSE /\ wk' = [wk EXCEPT ![w] =
                  IF hits # {}
                    THEN [f EXCEPT !.j = hit, !.m = hit % a.block,
                                   !.p = <<(hit \div a.block) + 1>>,
                                   !.pt = <<(hit \div a.block) + 1, (hit % a.block) + 1>>,
                                   !.pc = "l786"]
                  ELSE IF mm = a.block
                    THEN [f EXCEPT !.j = f.i, !.m = mm, !.p0 = <<nb>>,
                                   !.p = IF nb < Len(a.data) THEN <<nb + 1>> ELSE NULL,
                                   !.pt = IF nb < Len(a.data) THEN <<nb + 1, 1>>
                                                              ELSE <<nb, a.block + 1>>,
                                   !.pc = "l807"]
                  ELSE [f EXCEPT !.j = f.i, !.m = mm, !.p = <<nb>>,
                                 !.p0 = IF nb > 1 THEN <<nb - 1>> ELSE <<1>>,
                                 !.pt = <<nb, mm + 1>>, !.pc = "l807"]]
              /\ UNCHANGED <<arr, multi, _totalsize, _maxsize, nlock, fault,
                             last, ret, held>>

\* The key was found, by the first scan (786) or by the second (820).
WFound(w) ==
  /\ ~fault /\ wk[w].pc \in {"l786", "l820"}
  /\ LET f  == wk[w]
         a  == multi[1].array[f.h]
         a1 == IF f.d # NULL THEN MemcpyData(a, f.pt, f.d) ELSE a
     IN  IF f.stale THEN WCrash(w, "freed")
         ELSE /\ multi' = [multi EXCEPT ![1].array[f.h] = a1]
              /\ held' = IF f.locked = 1
                           THEN [held EXCEPT !.bucket[f.h] = 0] ELSE held
              /\ wk' = [wk EXCEPT ![w] = Idle]
              /\ UNCHANGED <<arr, _totalsize, _maxsize, nlock, fault, last, ret>>

WLock(w) ==
  /\ ~fault /\ wk[w].pc = "l807"
  /\ wk[w].locked = 0 => held.bucket[wk[w].h] = 0
  /\ held' = [held EXCEPT !.bucket[wk[w].h] = w]
  /\ wk' = [wk EXCEPT ![w].locked = 1, ![w].pc = "l811"]
  /\ UNCHANGED <<arr, multi, _totalsize, _maxsize, nlock, fault, last, ret>>

WRescan(w) ==
  /\ ~fault /\ wk[w].pc = "l811"
  /\ LET f  == wk[w]
         a  == multi[1].array[f.h]
         n0 == IF f.m = a.block
                 THEN (IF f.p0[1] < Len(a.data) THEN f.p0[1] + 1 ELSE 0)
                 ELSE f.p[1]
         s0 == [j |-> f.j, m |-> IF f.m = a.block THEN 0 ELSE f.m,
                p |-> n0, p0 |-> f.p0[1],
                pt |-> IF f.m = a.block THEN <<n0, 1>> ELSE f.pt,
                out |-> "none"]
     IN  IF a.dim > f.i
           THEN IF f.stale THEN WCrash(w, "freed")
                ELSE IF n0 = 0 THEN WCrash(w, "null")
                ELSE LET s == RescanWhile(a, f.k, s0)
                     IN  IF s.out = "null" THEN WCrash(w, "null")
                         ELSE /\ wk' = [wk EXCEPT ![w] =
                                   [f EXCEPT !.j = s.j, !.m = s.m,
                                             !.p = IF s.p = 0 THEN NULL ELSE <<s.p>>,
                                             !.p0 = <<s.p0>>, !.pt = s.pt,
                                             !.pc = IF s.out = "found"
                                                      THEN "l820" ELSE "l842"]]
                              /\ UNCHANGED <<arr, multi, _totalsize, _maxsize,
                                             nlock, fault, last, ret, held>>
           ELSE /\ wk' = [wk EXCEPT ![w].pc = "l842"]
                /\ UNCHANGED <<arr, multi, _totalsize, _maxsize, nlock, fault,
                               last, ret, held>>

\* "p0->next = malloc(...)" when the scans ended at the end of a block.
WGrow(w) ==
  /\ ~fault /\ wk[w].pc = "l842"
  /\ LET f == wk[w]
         a == multi[1].array[f.h]
     IN  IF f.m # a.block
           THEN /\ wk' = [wk EXCEPT ![w].pc = "l856"]
                /\ UNCHANGED <<arr, multi, _totalsize, _maxsize, nlock, fault,
                               last, ret, held>>
         ELSE IF f.stale THEN WCrash(w, "freed")
         ELSE /\ multi' = [multi EXCEPT ![1].array[f.h].data =
                             Append(SubSeq(a.data, 1, f.p0[1]),
                                    NewNode([m \in 1..a.block |-> MDataNull]))]
              /\ wk' = [wk EXCEPT ![w].p = <<f.p0[1] + 1>>,
                                  ![w].size = SizeofDATA + a.bsize,
                                  ![w].pc = "l848"]
              /\ UNCHANGED <<arr, _totalsize, _maxsize, nlock, fault, last,
                             ret, held>>

\* "pt->lock = malloc(...)" and "pt->data = malloc(...)".
WEntry(w) ==
  /\ ~fault /\ wk[w].pc = "l856"
  /\ LET f == wk[w]
     IN  IF f.pt = NULL THEN WCrash(w, "uninit")
         ELSE IF f.stale THEN WCrash(w, "freed")
         ELSE /\ multi' = [multi EXCEPT
                             ![1].array[f.h].data[f.pt[1]].dptr[f.pt[2]].lock = NewLock]
              /\ nlock' = nlock + (IF USE_MPI = 2 THEN 1 ELSE 0)
              /\ wk' = [wk EXCEPT ![w].size = SizeofLOCK + multi[1].esize
                                                + multi[1].isize,
                                  ![w].pc = "l868"]
              /\ UNCHANGED <<arr, _totalsize, _maxsize, fault, last, ret, held>>

\* InitData, the copy of d and "pt->index = idx".
WFill(w) ==
  /\ ~fault /\ wk[w].pc = "l871"
  /\ LET f == wk[w]
     IN  multi' = [multi EXCEPT
                     ![1].array[f.h].data[f.pt[1]].dptr[f.pt[2]] =
                        [@ EXCEPT !.data = IF f.d # NULL THEN f.d ELSE <<IntFresh>>,
                                  !.index = <<f.k>>]]
  /\ wk' = [wk EXCEPT ![w].pc = "l877"]
  /\ UNCHANGED <<arr, _totalsize, _maxsize, nlock, fault, last, ret, held>>

\* "(a->dim)++", the release of the bucket lock and the return.
WPublish(w) ==
  /\ ~fault /\ wk[w].pc = "l877"
  /\ LET f == wk[w]
     IN  /\ multi' = [multi EXCEPT ![1].array[f.h].dim = @ + 1]
         /\ held' = IF f.locked = 1 THEN [held EXCEPT !.bucket[f.h] = 0] ELSE held
  /\ wk' = [wk EXCEPT ![w] = Idle]
  /\ UNCHANGED <<arr, _totalsize, _maxsize, nlock, fault, last, ret>>

WGetLoad(w) ==
  /\ ~fault /\ wk[w].pc = "l718"
  /\ LET h == Hash2At(wk[w].k, multi[1].hmask)
         a == multi[1].array[h]
     IN  wk' = [wk EXCEPT ![w].h = h,
                          ![w].p = IF a.data = NULL THEN NULL ELSE <<1>>,
                          ![w].i = a.dim, ![w].j = 0, ![w].pc = "l723"]
  /\ UNCHANGED <<arr, multi, _totalsize, _maxsize, nlock, fault, last, ret, held>>

\* One turn of the while loop of NMultiGet.
WGetBlock(w) ==
  /\ ~fault /\ wk[w].pc = "l723"
  /\ LET f    == wk[w]
         a    == multi[1].array[f.h]
         n    == f.p[1]
         hits == {m \in 0..(a.block - 1) :
                    /\ f.j + m < f.i
                    /\ WSlot(a, <<n, m + 1>>).index \in {NULL, <<f.k>>}}
         hit  == CHOOSE m \in hits : \A m2 \in hits : m <= m2
         j1   == IF f.i - f.j > a.block THEN f.j + a.block
                 ELSE IF f.i > f.j THEN f.i ELSE f.j
         rest == <<arr, multi, _totalsize, _maxsize, nlock, fault, last, held>>
     IN  IF f.p = NULL
           THEN /\ ret' = [fn |-> "Get", w |-> w, k |-> f.k, val |-> NULL,
                           hit |-> FALSE]
                /\ wk' = [wk EXCEPT ![w] = Idle]
                /\ UNCHANGED rest
         ELSE IF f.stale THEN WCrash(w, "freed")
         ELSE IF hits # {} /\ WSlot(a, <<n, hit + 1>>).index = NULL
           THEN WCrash(w, "null")
         ELSE IF hits # {}
           THEN /\ ret' = [fn |-> "Get", w |-> w, k |-> f.k,
                           val |-> WSlot(a, <<n, hit + 1>>).data, hit |-> TRUE]
                /\ wk' = [wk EXCEPT ![w] = Idle]
                /\ UNCHANGED rest
         ELSE IF WUninit(f.h, n)
           THEN \/ WCrash(w, "uninit")
                \/ /\ wk' = [wk EXCEPT ![w].j = j1, ![w].p = NULL]
                   /\ UNCHANGED <<ret, arr, multi, _totalsize, _maxsize, nlock,
                                  fault, last, held>>
         ELSE /\ wk' = [wk EXCEPT ![w].j = j1,
                                  ![w].p = IF n < Len(a.data) THEN <<n + 1>>
                                                              ELSE NULL]
              /\ UNCHANGED <<ret, arr, multi, _totalsize, _maxsize, nlock,
                             fault, last, held>>

\* The steps of a call in progress.
WStep(w) ==
  \/ WCritical(w)
  \/ WEvictBucket(w)
  \/ WEvictLoad(w)
  \/ WEvictStore(w)
  \/ WEvictEnd(w)
  \/ WHash(w)
  \/ WLockEmpty(w)
  \/ WAllocFirst(w)
  \/ WLoadLocal(w)
  \/ WStoreLocal(w)
  \/ WLoadGlobal(w)
  \/ WStoreGlobal(w)
  \/ WInitBlock(w)
  \/ WCheckDim(w)
  \/ WScan(w)
  \/ WFound(w)
  \/ WLock(w)
  \/ WRescan(w)
  \/ WGrow(w)
  \/ WEntry(w)
  \/ WFill(w)
  \/ WPublish(w)
  \/ WGetLoad(w)
  \/ WGetBlock(w)

WNext ==
  \E w \in Workers :
    \/ \E k \in WSetKeys : WSetCall(w, k, <<DVal>>)
    \/ \E k \in WGetKeys : WGetCall(w, k)
    \/ WStep(w)

SpecW == WInit /\ [][WNext]_vars

\* Every worker that can take a step of its call is scheduled in the end.
SpecWF == WInit /\ [][WNext]_vars /\ \A w \in Workers : WF_vars(WStep(w))

(***************************************************************************)
(* The free hook.  ArrayTrim and ArrayFree pass element slots to FreeElem. *)
(* A slot is a pair <<j, s>>: slot s of the block of node j of the chain.  *)
(* In these runs last[j][s] is 1 when FreeElem has been called on the slot *)
(* since InitData or a Set last wrote it, and 0 otherwise; last[j] is NULL *)
(* for a node without storage.                                             *)
(***************************************************************************)
\* The slots ArrayFreeData passes to FreeElem, called on node j0 of chain a.
FreeDataHooks(a, j0) ==
  {<<j, s>> : j \in {j2 \in j0..Len(a.data) : a.data[j2].dptr # NULL},
              s \in 1..a.block}

\* The slots ArrayFree(a, FreeElem) passes to FreeElem.
FreeHooks(a) == IF a.dim = 0 THEN {} ELSE FreeDataHooks(a, 1)

\* The slots ArrayTrim(a, n, FreeElem) passes to FreeElem.
TrimHooks(a, n) ==
  IF a.dim <= n THEN {}
  ELSE IF n = 0 THEN FreeHooks(a)
  ELSE LET q == n \div a.block
           i == n % a.block
       IN  IF i = 0 THEN FreeDataHooks(a, q + 1)
           ELSE FreeDataHooks(a, q + 2)
                \cup (IF a.data[q + 1].dptr # NULL
                        THEN {<<q + 1, s>> : s \in (i + 1)..a.block}
                        ELSE {})

\* The marks of a block that InitData has just set up.
NoHooks(a) == [s \in 1..a.block |-> 0]

\* The marks after ArraySet(a, i, ...): the blocks it allocates start at
\* zero, and so does the slot it returns, which the caller writes.
SetHooks(a, cnt, i) ==
  LET a2   == ArraySet(a, i, NULL, IntFresh)
      cnt0 == IF a.dim = 0 THEN <<>> ELSE cnt
      n    == SetNode(a, i)
      cnt1 == [j \in 1..Len(a2.data) |->
                 IF j <= Len(cnt0) /\ cnt0[j] # NULL THEN cnt0[j]
                 ELSE IF a2.data[j].dptr # NULL THEN NoHooks(a) ELSE NULL]
  IN  [cnt1 EXCEPT ![n] = [@ EXCEPT ![SetOffset(a, i)] = 0]]

\* The marks after FreeElem has been called on the slots of H, on the
\* chain a2 that the call leaves.
Hooked(a2, cnt, H) ==
  [j \in 1..Len(a2.data) |->
     IF ~a2.data[j].live \/ cnt[j] = NULL THEN NULL
     ELSE [s \in DOMAIN cnt[j] |->
             IF <<j, s>> \in H THEN 1 ELSE cnt[j][s]]]

\* Whether a call that hooks the slots of H hooks a slot of unreleased
\* storage that was hooked before.
HookedTwice(a, cnt, H) ==
  \E h \in H : a.data[h[1]].live /\ cnt[h[1]] # NULL /\ cnt[h[1]][h[2]] >= 1

HInit ==
  /\ arr = ArrayInit(4, ABlock)
  /\ multi = <<>>
  /\ _totalsize = 0
  /\ _maxsize = 0 - 1
  /\ nlock = (IF arr.lock # "NULL" THEN 1 ELSE 0)
  /\ fault = FALSE
  /\ last = <<>>
  /\ ret = NoCall
  /\ wk = <<>>
  /\ held = <<>>

HSet(i, d) ==
  /\ ~fault
  /\ \/ /\ arr' = ArraySet(arr, i, d, IntFresh)
        /\ last' = SetHooks(arr, last, i)
        /\ ret' = [fn |-> "Set", i |-> i, twice |-> FALSE]
        /\ UNCHANGED <<nlock, fault>>
     \/ /\ SetTouchesFreed(arr, i)
        /\ Crash([fn |-> "Set", i |-> i, twice |-> FALSE])
        /\ UNCHANGED last
  /\ UNCHANGED <<multi, _totalsize, _maxsize, wk, held>>

HAppend(d) ==
  /\ ~fault
  /\ arr.dim <= MaxIdx
  /\ \/ /\ arr' = ArrayAppend(arr, d, IntFresh)
        /\ last' = SetHooks(arr, last, arr.dim)
        /\ ret' = [fn |-> "Append", i |-> arr.dim, twice |-> FALSE]
        /\ UNCHANGED <<nlock, fault>>
     \/ /\ SetTouchesFreed(arr, arr.dim)
        /\ Crash([fn |-> "Append", i |-> arr.dim, twice |-> FALSE])
        /\ UNCHANGED last
  /\ UNCHANGED <<multi, _totalsize, _maxsize, wk, held>>

\* hook: whether the call passes a FreeElem.
HTrim(n, hook) ==
  /\ ~fault
  /\ LET H == IF hook THEN TrimHooks(arr, n) ELSE {}
     IN  \/ /\ arr' = ArrayTrim(arr, n)
            /\ last' = Hooked(arr', last, H)
            /\ nlock' = nlock - TrimFreeLocks(arr, n)
            /\ ret' = [fn |-> "Trim", i |-> n,
                       twice |-> HookedTwice(arr, last, H)]
            /\ UNCHANGED fault
         \/ /\ TrimTouchesFreed(arr, n)
            /\ Crash([fn |-> "Trim", i |-> n,
                      twice |-> HookedTwice(arr, last, H)])
            /\ UNCHANGED last
  /\ UNCHANGED <<multi, _totalsize, _maxsize, wk, held>>

HFree(hook) ==
  /\ ~fault
  /\ LET H == IF hook THEN FreeHooks(arr) ELSE {}
     IN  \/ /\ arr' = ArrayFree(arr)
            /\ last' = Hooked(arr', last, H)
            /\ nlock' = nlock - ArrayFreeLocks(arr)
            /\ ret' = [fn |-> "Free", i |-> 0,
                       twice |-> HookedTwice(arr, last, H)]
            /\ UNCHANGED fault
         \/ /\ arr.dim # 0 /\ HasFreed(arr.data)
            /\ Crash([fn |-> "Free", i |-> 0,
                      twice |-> HookedTwice(arr, last, H)])
            /\ UNCHANGED last
  /\ UNCHANGED <<multi, _totalsize, _maxsize, wk, held>>

HNext ==
  \/ \E i \in 0..MaxIdx, d \in DataArgs : HSet(i, d)
  \/ \E d \in DataArgs : HAppend(d)
  \/ \E n \in 0..(MaxIdx + 1), hook \in BOOLEAN : HTrim(n, hook)
  \/ \E hook \in BOOLEAN : HFree(hook)

SpecH == HInit /\ [][HNext]_vars

(***************************************************************************)
(* The registry.  _multistats is a pointer to a block array of MULTI       *)
(* pointers, NULL until InitMultiStats; a MULTI pointer is modelled by the *)
(* number of the cache, the NULL pointer that InitPointerData leaves in a  *)
(* slot by 0.  In these runs arr is _multistats.                           *)
(***************************************************************************)
SizeofPointer == 8

StatsBlock == 256

\* _multistats after InitMultiStats.
InitMultiStats(s) ==
  IF s = NULL THEN <<ArrayInit(SizeofPointer, StatsBlock)>> ELSE s

\* _multistats after the ArrayAppend at the end of NMultiInit on cache c.
RegisterMulti(s, c) ==
  IF s # NULL THEN <<ArrayAppend(s[1], <<c>>, 0)>> ELSE s

\* The caches the loop of ReportMultiStats and of RemoveMultiLocks visits on
\* rank 0, in order, from slot i on: a slot that ArrayGet does not return,
\* or that holds NULL, is passed over.
RECURSIVE WalkFrom(_, _)
WalkFrom(s, i) ==
  IF s = NULL THEN <<>>
  ELSE IF i >= s[1].dim THEN <<>>
  ELSE LET pma == ArrayGet(s[1], i)
       IN  IF pma = NULL \/ pma[1] = 0 THEN WalkFrom(s, i + 1)
           ELSE <<pma[1]>> \o WalkFrom(s, i + 1)

\* The cache after the body of the loop of RemoveMultiLocks, its bucket
\* table being allocated.
RemoveLocksOf(ma) ==
  [ma EXCEPT !.lock = "NULL",
             !.array = [h \in DOMAIN @ |-> [@[h] EXCEPT !.lock = "NULL"]]]

\* The locks that body destroys.
RemovedLocksOf(ma) ==
  (IF ma.lock # "NULL" THEN 1 ELSE 0)
  + Cardinality({h \in DOMAIN ma.array : ma.array[h].lock # "NULL"})

\* RemoveMultiLocks over the caches of walk w: the caches, the locks
\* destroyed, and whether the loop has read the bucket table of a cache
\* through the NULL pointer that NMultiFree left in ma->array.
RECURSIVE RemoveMultiLocks(_, _, _)
RemoveMultiLocks(mm, w, n) ==
  IF w = <<>> THEN [multi |-> mm, nl |-> n, null |-> FALSE]
  ELSE LET c == Head(w)
       IN  IF mm[c].array = NULL
             THEN [multi |-> [mm EXCEPT ![c] = [@ EXCEPT !.lock = "NULL"]],
                   nl |-> n + (IF mm[c].lock # "NULL" THEN 1 ELSE 0),
                   null |-> TRUE]
             ELSE RemoveMultiLocks([mm EXCEPT ![c] = RemoveLocksOf(@)],
                                   Tail(w), n + RemovedLocksOf(mm[c]))

\* Calls of NMultiInit in a run.
RMaxInit == 3

\* Keys the runs store.
RKeys == {NKeyList[1], NOtherKey}

RBuckets == {Hash2At(k, HashMask(2)) : k \in RKeys}

\* A MULTI that no NMultiInit has set up yet, in zeroed storage.
RawMulti ==
  [kind |-> "N", maxsize |-> 0, totalsize |-> 0, clean_mode |-> 0,
   ndim |-> 0, isize |-> 0, esize |-> 0, hsize |-> 0, hmask |-> 0,
   array |-> NULL, lock |-> "NULL", numelem |-> 0]

RInit ==
  /\ arr = NULL
  /\ multi = <<RawMulti, RawMulti>>
  /\ _totalsize = 0
  /\ _maxsize = 0 - 1
  /\ nlock = 0
  /\ fault = FALSE
  /\ last = 0
  /\ ret = NoCall
  /\ wk = <<>>
  /\ held = <<>>

RInitMultiStats ==
  /\ ~fault
  /\ arr' = InitMultiStats(arr)
  /\ nlock' = nlock + (IF arr = NULL /\ NewLock # "NULL" THEN 1 ELSE 0)
  /\ ret' = [fn |-> "InitMultiStats", visited |-> <<>>]
  /\ UNCHANGED <<multi, _totalsize, _maxsize, fault, last, wk, held>>

\* last counts the calls of NMultiInit.
RMultiInit(c) ==
  /\ ~fault
  /\ multi[c].ndim = 0
  /\ last < RMaxInit
  /\ multi' = [multi EXCEPT ![c] = NMultiInit(NESize[1], 2, 0, RBuckets)]
  /\ arr' = RegisterMulti(arr, c)
  /\ nlock' = nlock + NLocks(multi'[c])
  /\ last' = last + 1
  /\ ret' = [fn |-> "NMultiInit", visited |-> <<>>]
  /\ UNCHANGED <<_totalsize, _maxsize, fault, wk, held>>

RSet(c, k) ==
  /\ ~fault
  /\ multi[c].ndim > 0
  /\ LET r == NMultiSet(multi[c], k, NULL, IntFresh, _totalsize, _maxsize)
     IN  /\ multi' = [multi EXCEPT ![c] = r.ma]
         /\ _totalsize' = r.T
         /\ nlock' = nlock + r.nl
  /\ ret' = [fn |-> "NMultiSet", visited |-> <<>>]
  /\ UNCHANGED <<arr, _maxsize, fault, last, wk, held>>

RFree(c) ==
  /\ ~fault
  /\ multi[c].ndim > 0
  /\ LET r == NMultiFree(multi[c], _totalsize, _maxsize)
     IN  /\ multi' = [multi EXCEPT ![c] = r.ma]
         /\ _totalsize' = r.T
         /\ nlock' = nlock - r.nl
  /\ ret' = [fn |-> "NMultiFree", visited |-> <<>>]
  /\ UNCHANGED <<arr, _maxsize, fault, last, wk, held>>

\* ReportMultiStats reads ma->numelem and the other fields of the MULTI of
\* every cache it visits, and writes nothing.
RReportMultiStats ==
  /\ ~fault
  /\ ret' = [fn |-> "ReportMultiStats", visited |-> WalkFrom(arr, 0)]
  /\ UNCHANGED <<arr, multi, _totalsize, _maxsize, nlock, fault, last, wk, held>>

RRemoveMultiLocks ==
  /\ ~fault
  /\ LET r == RemoveMultiLocks(multi, WalkFrom(arr, 0), 0)
     IN  /\ multi' = r.multi
         /\ nlock' = nlock - r.nl
         /\ fault' = r.null
  /\ ret' = [fn |-> "RemoveMultiLocks", visited |-> WalkFrom(arr, 0)]
  /\ UNCHANGED <<arr, _totalsize, _maxsize, last, wk, held>>

RNext ==
  \/ RInitMultiStats
  \/ \E c \in NCaches : RMultiInit(c)
  \/ \E c \in NCaches, k \in RKeys : RSet(c, k)
  \/ \E c \in NCaches : RFree(c)
  \/ RReportMultiStats
  \/ RRemoveMultiLocks

SpecR == RInit /\ [][RNext]_vars

(***************************************************************************)
(* Notions the properties of the hash-sparse array are stated with.         *)
(***************************************************************************)
\* Keys of the runs that cache ma holds.
NHeld(ma) == {k \in NAllKeys : NMultiGet(ma, k) # NULL}

\* Entries of bucket a whose index is k.
NCopies(a, k) ==
  Cardinality({j \in 0..(a.dim - 1) : NEntryAt(a, j).index = <<k>>})

\* The bytes a Set accounts for in an empty cache: a bucket block and an entry.
NOneEntry(ma) ==
  SizeofDATA + 8 * SizeofMDATA + SizeofLOCK + ma.esize + ma.isize

\* The local and the global trigger, as the spec words them, with a budget
\* counting as configured when it is positive.
NLocalDue(ma) == ma.maxsize > 0 /\ ma.totalsize >= ma.maxsize

NGlobalDue(ma) ==
  _maxsize > 0 /\ _totalsize >= _maxsize /\ 10 * ma.totalsize > _totalsize

(***************************************************************************)
(* C1.  Hash-sparse array, single worker: for every key, Get returns the   *)
(* value the last Set of exactly that key stored since the cache was last  *)
(* cleared, and NULL for a key that no Set has stored since, keys of the   *)
(* bucket of stored keys included.                                         *)
(***************************************************************************)
C1_GetReturnsLastSet ==
  multi # <<>> /\ multi[1].kind = "N" =>
    \A c \in NCaches :
      multi[c].ndim > 0 =>
        \A k \in NAllKeys : NMultiGet(multi[c], k) = last[c][k]

\* The bucket runs into its second block, a key of the second block holds
\* the data of its Set, and a Get of a colliding key never stored is absent.
C1_Witness ==
  /\ multi # <<>> /\ multi[1].kind = "N" /\ multi[1].ndim > 0
  /\ ret.fn = "NGet" /\ ret.c = 1 /\ ret.k = NKeyList[FillKeys + 1]
  /\ multi[1].array[Hash2At(ret.k, multi[1].hmask)].dim > 8
  /\ NMultiGet(multi[1], ret.k) = NULL
  /\ NMultiGet(multi[1], NKeyList[FillKeys]) = <<DVal>>
  /\ NMultiGet(multi[1], NKeyList[1]) = <<IntFresh>>

(***************************************************************************)
(* C2 (as amended).  Local eviction: when the budget of a hash-sparse      *)
(* cache is positive and its tracked total has reached it, the next Set on *)
(* the cache removes every stored entry, then stores its key: Get of every *)
(* other key returns NULL, the cache's total is that of one bucket block   *)
(* and one entry, and the global total has gone down by the cache's total  *)
(* before the flush and up by that of the new entry.  A budget of zero,    *)
(* like a negative one, means unlimited: while no global trigger is due    *)
(* such a Set removes nothing.                                             *)
(***************************************************************************)
C2_LocalEviction ==
  [][ret'.fn = "NSet" =>
       LET ma  == multi[ret'.c]
           ma2 == multi'[ret'.c]
       IN  /\ NLocalDue(ma) =>
                /\ NHeld(ma2) = {ret'.k}
                /\ ma2.totalsize = NOneEntry(ma)
                /\ _totalsize' = _totalsize - ma.totalsize + NOneEntry(ma)
           /\ (ma.maxsize <= 0 /\ ~NGlobalDue(ma)) =>
                NHeld(ma) \subseteq NHeld(ma2)]_vars

\* A Set has cleared cache 1 under its own budget, and cache 2 holds its key.
C2_Witness ==
  /\ multi # <<>> /\ multi[1].kind = "N" /\ multi[1].ndim > 0
  /\ ret.fn = "NSet" /\ ret.c = 1 /\ ret.clean = 0
  /\ multi[1].maxsize = LocalBudget
  /\ NHeld(multi[1]) = {ret.k}
  /\ NHeld(multi[2]) # {}
  /\ _totalsize = multi[1].totalsize + multi[2].totalsize

\* C2 as stated: every budget that is not negative evicts once reached.
C2_AsStated ==
  [][ret'.fn = "NSet" =>
       LET ma  == multi[ret'.c]
           ma2 == multi'[ret'.c]
       IN  (ma.maxsize >= 0 /\ ma.totalsize >= ma.maxsize) =>
             /\ NHeld(ma2) = {ret'.k}
             /\ _totalsize' = _totalsize - ma.totalsize + ma2.totalsize]_vars

C9_AsStated ==
  [][ret'.fn = "NFree" => nlock' = nlock - NLocks(multi[ret'.c])]_vars

(***************************************************************************)
(* Notions the properties of the dense and hybrid arrays are stated with.   *)
(***************************************************************************)
\* What Get of key k returns in the current state.
DGetNow(ma, k) == IF ma.kind = "S" THEN SMultiGet(ma, k) ELSE MMultiGet(ma, k)

\* Keys whose Get has a defined outcome.
DDefined(ma) ==
  {k \in DGetKeys(ma) : ma.kind = "S" \/ ~MOutside(ma, k)}

\* Keys a Set has stored.
DSetKeys == {k \in DOMAIN last[1] : last[1][k] # NULL}

DFast(k) == \A i \in 1..2 : k[i] < DBlock[i]

\* Whether key k falls inside storage that the Sets of the keys in DSetKeys
\* have materialized.  Dense array: the row of k holds a set key at or past
\* the column of k, and the block of that column is the first of the row or
\* holds a set key.  Hybrid array, fast path: a set fast-path key lies at or
\* past the offset of k.  Hybrid array, hashed: a set key has the bucket
\* and the 16-bit quotients of k.
DInStorage(ma, k) ==
  IF ma.kind = "S"
    THEN /\ \E s \in DSetKeys : s[1] = k[1] /\ k[2] <= s[2]
         /\ \/ k[2] \div DBlock[2] = 0
            \/ \E s \in DSetKeys : s[1] = k[1] /\ s[2] \div DBlock[2] = k[2] \div DBlock[2]
    ELSE IF DFast(k)
      THEN \E s \in DSetKeys :
             /\ DFast(s)
             /\ (k[1] % Limb) + (k[2] % Limb) * DBlock[1] <= s[1] + s[2] * DBlock[1]
      ELSE \E s \in DSetKeys :
             /\ ~DFast(s)
             /\ \A i \in 1..2 :
                  (k[i] \div DBlock[i]) % Limb = (s[i] \div DBlock[i]) % Limb
             /\ Hash2At(<<k[1] \div DBlock[1], k[2] \div DBlock[2]>>, ma.hmask)
                  = Hash2At(<<s[1] \div DBlock[1], s[2] \div DBlock[2]>>, ma.hmask)

(***************************************************************************)
(* C4 (as amended).  In the dense and in the hybrid array, Get of a key    *)
(* that no Set has stored returns NULL unless the key falls inside storage *)
(* that Sets of other keys have materialized; Get of a never-set key that  *)
(* falls inside a materialized row block of the dense array, or at or      *)
(* below the offset of a set key on the fast path of the hybrid array,     *)
(* returns a reference to a slot instead of NULL.                          *)
(***************************************************************************)
C4_AbsentOutsideStorage ==
  ~fault /\ multi # <<>> /\ multi[1].kind \in {"S", "M"} =>
    \A k \in DDefined(multi[1]) :
      last[1][k] = NULL =>
        /\ DGetNow(multi[1], k) # NULL => DInStorage(multi[1], k)
        /\ (multi[1].kind = "S" \/ DFast(k)) /\ DInStorage(multi[1], k)
             => DGetNow(multi[1], k) # NULL

\* A Get of a never-set key has returned a slot, and another never-set key
\* is absent.
C4_Witness ==
  /\ ~fault /\ multi # <<>> /\ multi[1].kind \in {"S", "M"}
  /\ ret.fn = "MultiGet" /\ ret.val # NULL
  /\ last[1][ret.k] = NULL
  /\ DInStorage(multi[1], ret.k)
  /\ \E k \in DDefined(multi[1]) :
       last[1][k] = NULL /\ DGetNow(multi[1], k) = NULL

\* C4 as stated: Get of a key that no Set has stored returns NULL.
C4_AsStated ==
  ~fault /\ multi # <<>> /\ multi[1].kind \in {"S", "M"} =>
    \A k \in DDefined(multi[1]) :
      last[1][k] = NULL => DGetNow(multi[1], k) = NULL

(***************************************************************************)
(* C5 (as stated).  In the dense and in the hybrid array, distinct keys    *)
(* never share a slot: Get of every key a Set has stored returns what the  *)
(* last Set of that key stored, whatever Sets of other keys came after.    *)
(***************************************************************************)
C5_AsStated ==
  ~fault /\ multi # <<>> /\ multi[1].kind \in {"S", "M"} =>
    \A k \in DDefined(multi[1]) :
      last[1][k] # NULL => DGetNow(multi[1], k) = last[1][k]

(***************************************************************************)
(* C6 (as amended).  A call on the hybrid array takes the fast path        *)
(* exactly when every coordinate of the key is below its block size; when  *)
(* every coordinate is also not negative, the call resolves to the offset  *)
(* k[0] + k[1]*block[0] of the dense fallback array and leaves the hash    *)
(* buckets as they were.                                                   *)
(***************************************************************************)
C6_FastPath ==
  [][(multi[1].kind = "M" /\ ret'.fn \in {"MultiSet", "MultiGet"}) =>
       LET k   == ret'.k
           off == k[1] + k[2] * DBlock[1]
       IN  /\ multi'[1].isf = 1 <=> DFast(k)
           /\ (\A i \in 1..2 : 0 <= k[i] /\ k[i] < DBlock[i]) =>
                /\ multi'[1].aidx = off
                /\ multi'[1].ia = multi[1].ia
                /\ multi'[1].da = multi[1].da
                /\ ret'.fn = "MultiGet" =>
                     ret'.val = ArrayGet(multi[1].array[1], off)
                /\ ret'.fn = "MultiSet" =>
                     ArrayGet(multi'[1].array[1], off) = last'[1][k]]_vars

\* A Set on the fast path has stored at its offset while a bucket holds a
\* super-cell.
C6_Witness ==
  /\ ~fault /\ multi # <<>> /\ multi[1].kind = "M"
  /\ ret.fn = "MultiSet" /\ DFast(ret.k)
  /\ multi[1].isf = 1
  /\ multi[1].aidx = ret.k[1] + ret.k[2] * DBlock[1]
  /\ ArrayGet(multi[1].array[1], multi[1].aidx) = <<DVal>>
  /\ \E h \in DOMAIN multi[1].ia : multi[1].ia[h].dim > 0

\* C6 as stated: the offset formula for every key below the block sizes.
C6_AsStated ==
  [][(multi[1].kind = "M" /\ ret'.fn \in {"MultiSet", "MultiGet"}) =>
       LET k   == ret'.k
           off == k[1] + k[2] * DBlock[1]
       IN  /\ multi'[1].isf = 1 <=> DFast(k)
           /\ DFast(k) =>
                /\ multi'[1].aidx = off
                /\ multi'[1].ia = multi[1].ia
                /\ multi'[1].da = multi[1].da
                /\ ret'.fn = "MultiGet" =>
                     ret'.val = ArrayGet(multi[1].array[1], off)]_vars

C11_ContiguousIsAppended ==
  /\ ~fault
  /\ ret.fn = "Contiguous" =>
       IF Len(last) = 0 THEN ret.val = NULL ELSE ret.val = <<last>>

\* A copy of two full blocks of distinct contents has been returned.
C11_Witness ==
  /\ ret.fn = "Contiguous"
  /\ arr.block > 1
  /\ arr.dim = 2 * arr.block
  /\ ret.val = <<last>>
  /\ \E i, j \in 1..Len(last) : last[i] # last[j]

(***************************************************************************)
(* C12 (as stated).  The table of a hashed array has 2^(ndim/2 + 16)       *)
(* buckets, its mask is that size less one, and so the bucket selected for *)
(* every key is at least 0 and below the size.  Stated here for the        *)
(* hybrid array.                                                           *)
(***************************************************************************)
C12_AsStated ==
  multi # <<>> /\ multi[1].kind = "M" =>
    /\ multi[1].hsize = Pow2((multi[1].ndim \div 2) + 16)
    /\ multi[1].hmask = multi[1].hsize - 1
    /\ \A k \in MGetKeys : ~MOutside(multi[1], k)

(***************************************************************************)
(* C13.  Over a non-empty domain d[0..n-1] of distinct integers, IdxGet    *)
(* of d[k] is k; IdxGet of a value that is not in the domain is -1 when    *)
(* the value is inside [min, max] or below min, and -2 when it is above    *)
(* max.                                                                    *)
(***************************************************************************)
IDistinct(d) == \A j, k \in 1..Len(d) : j # k => d[j] # d[k]

IElems(d) == {d[k] : k \in 1..Len(d)}

C13_IdxGet ==
  ret.fn = "IdxGet" /\ arr.n > 0 /\ IDistinct(arr.d) =>
    /\ ~fault
    /\ \A k \in 0..(arr.n - 1) : ret.i = arr.d[k + 1] => ret.val = k
    /\ ret.i \notin IElems(arr.d) =>
         IF \A e \in IElems(arr.d) : ret.i > e THEN ret.val = 0 - 2
                                                ELSE ret.val = 0 - 1

\* The four cases have been met over one domain that is not in order and has
\* a gap: a member, a value in the gap, one below and one above.
C13_Witness ==
  /\ ret.fn = "IdxGet" /\ arr.n = 3 /\ IDistinct(arr.d)
  /\ arr.d[1] < arr.d[3] /\ arr.d[3] < arr.d[2]
  /\ arr.m > arr.n
  /\ ret.i = arr.d[2] /\ ret.val = 1
  /\ IdxGet(arr, arr.m0 - 1) = 0 - 1
  /\ IdxGet(arr, arr.m1 + 1) = 0 - 2
  /\ \E v \in arr.m0..arr.m1 : v \notin IElems(arr.d) /\ IdxGet(arr, v) = 0 - 1

(***************************************************************************)
(* Notions the properties of the workers are stated with.                  *)
(***************************************************************************)
\* No call is in progress.
WQuiet == \A w \in Workers : wk[w].pc = "idle"

\* The bytes NMultiSet accounts for the blocks and the entries of a cache.
WAccounted(ma) ==
  SumOver(DOMAIN ma.array,
          [h \in DOMAIN ma.array |->
             Len(ma.array[h].data) * (SizeofDATA + ma.array[h].bsize)
             + ma.array[h].dim * (SizeofLOCK + ma.esize + ma.isize)])

(***************************************************************************)
(* C14 (as stated).  Whatever the interleaving of the Sets of the workers, *)
(* no bucket holds two entries with the same key, a bucket that grew       *)
(* across a block boundary between the first scan of a Set and its second  *)
(* scan under the bucket lock included.                                    *)
(***************************************************************************)
C14_AsStated ==
  \A h \in NBuckets :
    \A p1, p2 \in WSlots(multi[1].array[h]) :
      p1 # p2 /\ WSlot(multi[1].array[h], p1).index # NULL =>
        WSlot(multi[1].array[h], p1).index # WSlot(multi[1].array[h], p2).index

(***************************************************************************)
(* C15 (as stated).  No update of the total of a cache or of the global    *)
(* total is lost: whenever no call is in progress, the total of the cache  *)
(* is the bytes accounted for its blocks and entries, and the global total *)
(* is the sum of the totals of the caches.                                 *)
(***************************************************************************)
C15_AsStated ==
  WQuiet =>
    /\ multi[1].totalsize = WAccounted(multi[1])
    /\ _totalsize = multi[1].totalsize

(***************************************************************************)
(* C16 (as stated).  A Get, or the first scan of a Set, that runs while    *)
(* the Set of another worker evicts the cache never reads a block, a key   *)
(* or a value that the eviction has freed.                                 *)
(***************************************************************************)
C16_AsStated == \A w \in Workers : wk[w].pc # "freed"

(***************************************************************************)
(* C17 (as amended).  No step of a Set changes the key or the lock of an   *)
(* entry that exists, and a bucket changes by appends and by eviction of   *)
(* the whole cache only, but for one thing: a Set of the key of an entry   *)
(* that passes data copies the data into the value of the entry in place,  *)
(* so that the value of an existing entry does change under a Get.         *)
(***************************************************************************)
C17_KeysStayValuesOverwritten ==
  [][\A h \in NBuckets :
       multi'[1].array[h].dim >= multi[1].array[h].dim =>
         \A j \in 0..(multi[1].array[h].dim - 1) :
           NEntryAt(multi[1].array[h], j).index # NULL =>
             /\ NEntryAt(multi'[1].array[h], j).index
                  = NEntryAt(multi[1].array[h], j).index
             /\ NEntryAt(multi'[1].array[h], j).lock
                  = NEntryAt(multi[1].array[h], j).lock
             /\ NEntryAt(multi'[1].array[h], j).data
                  # NEntryAt(multi[1].array[h], j).data =>
                  \E w \in Workers :
                    /\ wk[w].pc \in {"l786", "l820"}
                    /\ wk[w].d # NULL
                    /\ <<wk[w].k>> = NEntryAt(multi[1].array[h], j).index
                    /\ NEntryAt(multi'[1].array[h], j).data = wk[w].d]_vars

\* A Set has overwritten the value of the first entry of a bucket that has
\* also grown by appends.
C17_Witness ==
  /\ ~fault
  /\ LET a == multi[1].array[Hash2At(NKeyList[1], multi[1].hmask)]
     IN  /\ a.dim > WPrefill
         /\ NEntryAt(a, 0).index = <<NKeyList[1]>>
         /\ NEntryAt(a, 0).data = <<DVal>>
         /\ NEntryAt(a, 1).data = <<IntFresh>>

\* C17 as stated: no step of a Set changes an entry that exists.
C17_AsStated ==
  [][\A h \in NBuckets :
       multi'[1].array[h].dim >= multi[1].array[h].dim =>
         \A j \in 0..(multi[1].array[h].dim - 1) :
           NEntryAt(multi'[1].array[h], j) = NEntryAt(multi[1].array[h], j)]_vars

(***************************************************************************)
(* C18 (as stated).  A Get that runs while a Set inserts a new key with    *)
(* data returns NULL or a value that holds the data: it reads no block,    *)
(* key or value that is not set up yet.                                    *)
(***************************************************************************)
C18_AsStated ==
  /\ \A w \in Workers : wk[w].fn = "Get" => wk[w].pc # "uninit"
  /\ ret.fn = "Get" /\ ret.k \in {WKeyA, WKeyB, NOtherKey} =>
       ret.val \in {NULL, <<DVal>>}

(***************************************************************************)
(* C19 (as stated).  With every worker scheduled again and again, every    *)
(* Set that has started returns.                                           *)
(***************************************************************************)
C19_AsStated ==
  \A w \in Workers : (wk[w].fn = "Set") ~> (wk[w].pc = "idle")

(***************************************************************************)
(* C20.  With one worker, after any sequence of Init, Set, Get, FreeData,  *)
(* Free and evictions that a budget triggers, on every hash-sparse cache   *)
(* the tracked total is the sum of the bytes accounted for the bucket      *)
(* blocks it has allocated and for its live entries, and the global total  *)
(* is the sum of the tracked totals of the caches.                         *)
(***************************************************************************)
C20_Ledger ==
  /\ \A c \in NCaches :
       multi[c].totalsize =
         IF multi[c].ndim > 0 THEN WAccounted(multi[c]) ELSE 0
  /\ _totalsize = SumOver(NCaches, [c \in NCaches |-> multi[c].totalsize])

\* A Set has just evicted cache 1 under a budget and stored its key, with
\* block bytes and entry bytes accounted in both caches.
C20_Witness ==
  /\ ret.fn = "NSet" /\ ret.c = 1 /\ ret.clean >= 0
  /\ multi[1].ndim > 0 /\ multi[1].totalsize = NOneEntry(multi[1])
  /\ multi[2].totalsize = NOneEntry(multi[2])
  /\ _totalsize = NOneEntry(multi[1]) + NOneEntry(multi[2])

(***************************************************************************)
(* C21.  Per-cache budget bound, single worker: after every Set on a       *)
(* hash-sparse cache whose budget B is positive, the tracked total of the  *)
(* cache is less than B plus the bytes one Set can add, those of one       *)
(* bucket block and one entry.                                             *)
(***************************************************************************)
C21_BudgetBound ==
  (multi # <<>> /\ multi[1].kind = "N" /\ ret.fn = "NSet") =>
    LET ma == multi[ret.c]
    IN  ma.maxsize > 0 => ma.totalsize < ma.maxsize + NOneEntry(ma)

\* A Set has just taken cache 1 above its budget without a flush: the
\* total lies between the budget and the bound.
C21_Witness ==
  /\ multi # <<>> /\ multi[1].kind = "N" /\ multi[1].ndim > 0
  /\ ret.fn = "NSet" /\ ret.c = 1 /\ ret.clean < 0
  /\ multi[1].maxsize = LocalBudget
  /\ multi[1].totalsize > LocalBudget
  /\ Cardinality(NHeld(multi[1])) >= 2

(***************************************************************************)
(* C22.  Eviction is confined to the cache whose Set triggered it: a Set   *)
(* that evicts cache A, under the local or the global trigger, leaves      *)
(* every other cache as it was (entries, live-element count, total), takes *)
(* the total of A before the flush off the global total, to which the new  *)
(* entry then adds its bytes, and leaves A in use: the key of the Set is   *)
(* stored and the next Get of it returns the element of the Set.           *)
(***************************************************************************)
C22_EvictionConfined ==
  [][(ret'.fn = "NSet" /\ ret'.clean >= 0) =>
       LET c   == ret'.c
           ma  == multi[c]
           ma2 == multi'[c]
           e   == NMultiSetEvict(ma, _totalsize, _maxsize)
       IN  /\ \A c2 \in NCaches \ {c} : multi'[c2] = multi[c2]
           /\ e.T = _totalsize - ma.totalsize
           /\ _totalsize' = e.T + NOneEntry(ma)
           /\ ma2.ndim > 0 /\ ma2.array # NULL
           /\ ma2.maxsize = ma.maxsize
           /\ NMultiGet(ma2, ret'.k) # NULL
           /\ NMultiGet(ma2, ret'.k) = last'[c][ret'.k]]_vars

\* A Set with data has evicted cache 1 while cache 2 holds an entry: cache 2
\* still holds it, and cache 1 returns the data of the Set.
C22_Witness ==
  /\ multi # <<>> /\ multi[1].kind = "N" /\ multi[1].ndim > 0
  /\ ret.fn = "NSet" /\ ret.c = 1 /\ ret.clean >= 0
  /\ multi[2].numelem = 1 /\ multi[2].totalsize = NOneEntry(multi[2])
  /\ NMultiGet(multi[2], NOtherKey) # NULL
  /\ NMultiGet(multi[1], ret.k) = <<DVal>>
  /\ _totalsize = NOneEntry(multi[1]) + multi[2].totalsize

(***************************************************************************)
(* C23 (as stated).  After ArrayTrim(a, n) with 0 < n < length, n a whole  *)
(* number of blocks included, every block linked from the head of the      *)
(* chain is unreleased, so that a following ArrayAppend or ArraySet reads  *)
(* no released block.                                                      *)
(***************************************************************************)
C23_AsStated ==
  /\ (ret.fn = "Trim" /\ ~fault /\ 0 < ret.i /\ ret.i < ret.dim0) =>
       ~HasFreed(arr.data)
  /\ ret.fn \in {"Set", "Append"} => ~fault

(***************************************************************************)
(* C24 (as stated).  Across ArrayAppend, ArraySet, ArrayTrim and ArrayFree *)
(* the free hook is called at most once on an element slot between the     *)
(* write that set it up and the release of its storage: no ArrayTrim and   *)
(* no ArrayFree passes to the hook a slot of unreleased storage that an    *)
(* earlier ArrayTrim has passed to it already.                             *)
(***************************************************************************)
C24_AsStated == ret.fn \in {"Trim", "Free"} => ~ret.twice

(***************************************************************************)
(* C25 (as stated).  ArrayFree releases the lock of the array in every     *)
(* state: after ArrayInit and any sequence of operations, none included,   *)
(* ArrayFree leaves the array with length zero, no blocks and no live      *)
(* lock.                                                                   *)
(***************************************************************************)
C25_AsStated ==
  (ret.fn = "Free" /\ ~fault) =>
    /\ arr.dim = 0
    /\ arr.data = NULL
    /\ arr.lock = "NULL"
    /\ nlock = 0

(***************************************************************************)
(* C26 (as stated).  Every cache the walk of the registry visits is live:  *)
(* after any sequence of NMultiInit and NMultiFree, neither                *)
(* ReportMultiStats nor RemoveMultiLocks visits a cache whose bucket table *)
(* NMultiFree has released, and RemoveMultiLocks reads no bucket table     *)
(* through a NULL pointer.                                                 *)
(***************************************************************************)
C26_AsStated ==
  ret.fn \in {"ReportMultiStats", "RemoveMultiLocks"} =>
    /\ ~fault
    /\ \A i \in DOMAIN ret.visited : multi[ret.visited[i]].array # NULL

=========================================================================
